---- MODULE Spec2Model ----
(***************************************************************************)
(* A model of offrecord's pattern registry (src/src/patterns.ts), of its    *)
(* redaction / detection engine (src/src/redactor.ts), of the default      *)
(* instances of both, of the safe-error wrappers (src/src/safe-error.ts)   *)
(* and of SecureString (src/unnamed/part_005).                             *)
(*                                                                         *)
(* Strings that are scanned or produced (texts, matches, replacements) are *)
(* sequences of one-character strings; offsets into them are 0-based, as   *)
(* in the source.  A regular expression is named by its literal and is     *)
(* compiled to a sequence of items that a backtracking matcher walks in    *)
(* the priority order of the ECMAScript matcher.                           *)
(***************************************************************************)
EXTENDS Integers, Sequences, FiniteSets, TLC

VARIABLES
    patterns,   \* PatternRegistry.patterns: the registrations, in Map order
    config,     \* SecretRedactor.config of each engine bound to the registry
    last,       \* the latest call: its arguments and what it returned
    history,    \* the calls that wrote to the registry so far, oldest first
    writes,     \* the number of register, unregister and clear calls made
    regExps,    \* RegExp.lastIndex of each pattern object of the rules, kept
                \* where the calls of one program are taken in sequence
    registries,     \* the PatternRegistry objects constructed so far
    globalRegistry, \* patterns.ts: let globalRegistry (a registry or Null)
    redactors,      \* the SecretRedactor objects constructed so far
    globalRedactor, \* redactor.ts: let globalRedactor (a redactor or Null)
    strings,        \* the SecureString objects constructed so far
    pending         \* the useAsync calls whose promise is not settled yet

\* the module-level state of patterns.ts and redactor.ts and the objects it
\* refers to; an object is named by its place in registries or redactors
globalVars == <<registries, globalRegistry, redactors, globalRedactor>>

secureVars == <<strings, pending>>

vars == <<patterns, config, regExps, last, history, writes, globalVars,
         secureVars>>

\* null
Null == 0

-----------------------------------------------------------------------------
(* Characters and character classes                                        *)

LowerSeq == <<"a","b","c","d","e","f","g","h","i","j","k","l","m",
              "n","o","p","q","r","s","t","u","v","w","x","y","z">>

UpperSeq == <<"A","B","C","D","E","F","G","H","I","J","K","L","M",
              "N","O","P","Q","R","S","T","U","V","W","X","Y","Z">>

Lower == {LowerSeq[i] : i \in DOMAIN LowerSeq}

Upper == {UpperSeq[i] : i \in DOMAIN UpperSeq}

Digit == {"0","1","2","3","4","5","6","7","8","9"}

Alnum == Lower \cup Upper \cup Digit

\* \s
Space == {" ", "\t", "\n", "\r"}

\* ['"]
Quote == {"'", "\""}

\* The characters c' with Canonicalize(c') = Canonicalize(c) under the i flag.
CaseVariants(c) ==
    {c} \cup {UpperSeq[i] : i \in {j \in DOMAIN LowerSeq : LowerSeq[j] = c}}
        \cup {LowerSeq[i] : i \in {j \in DOMAIN UpperSeq : UpperSeq[j] = c}}

-----------------------------------------------------------------------------
(* Regular expression items.  max = -1 stands for "no upper limit".        *)

Cls(set, min, max) ==
    [k |-> "cls", neg |-> FALSE, set |-> set, min |-> min, max |-> max, lazy |-> FALSE]

\* a negated class [^...]
NCls(set, min, max) ==
    [k |-> "cls", neg |-> TRUE, set |-> set, min |-> min, max |-> max, lazy |-> FALSE]

\* [\s\S]*?
AnyLazy == [k |-> "cls", neg |-> TRUE, set |-> {}, min |-> 0, max |-> -1, lazy |-> TRUE]

\* (?: the next n items )?
Opt(n) == [k |-> "opt", n |-> n]

\* ^ and $ (no m flag)
Bol == [k |-> "bol"]

Eol == [k |-> "eol"]

\* a literal string, case-sensitive: at each place the one character
Lit(s) == <<[k |-> "lit", s |-> [i \in DOMAIN s |-> {s[i]}]]>>

\* a literal string under the i flag: at each place the character's case variants
LitI(s) == <<[k |-> "lit", s |-> [i \in DOMAIN s |-> CaseVariants(s[i])]]>>

InClass(c, it) == (c \in it.set) # it.neg

-----------------------------------------------------------------------------
(* Loops.  A loop is a record: its name and the values its body reads.     *)
(* Loop(loop, acc, lo, hi) is acc after                                    *)
(*     for (i = lo; i <= hi; i++) acc = LoopBody(loop, acc, i)             *)
(* Both are defined after the bodies of the loops of the program.          *)

RECURSIVE Loop(_, _, _, _)

-----------------------------------------------------------------------------
(* The matcher.  Positions are 0-based offsets; the character              *)
(* at offset p is text[p + 1].                                             *)

Fail == -1

\* the least element of the set S of integers, none when S is empty
Least(S, none) == IF S = {} THEN none ELSE CHOOSE i \in S : \A j \in S : i <= j

\* the least i in lo..hi with text[i] outside the class of it, hi + 1 when
\* there is none
FirstOutside(text, it, lo, hi) ==
    Least({i \in lo .. hi : ~InClass(text[i], it)}, hi + 1)

\* the largest n <= max such that text[pos .. pos+n) lies in the class of it
RunLen(text, pos, it) ==
    LET limit == IF it.max # -1 /\ pos + it.max < Len(text)
                 THEN pos + it.max ELSE Len(text)
    IN  FirstOutside(text, it, pos + 1, limit) - 1 - pos

\* the literal of it stands at pos
LitAt(text, pos, it) ==
    /\ pos + Len(it.s) <= Len(text)
    /\ \A i \in DOMAIN it.s : text[pos + i] \in it.s[i]

\* A thread of the search is one way of matching the items before item k,
\* ending at offset pos; key lists the alternative taken at each item, 0 for
\* the one a backtracking engine tries first.

\* The threads that follow thread t at the quantified class it, item k, the
\* class running over run characters from t.pos: one for every count from min
\* to run, the largest first (the smallest first when lazy).
ClassCounts(t, k, it, run) ==
    {[k |-> k + 1, pos |-> t.pos + n,
      key |-> Append(t.key, IF it.lazy THEN n - it.min ELSE run - n)] :
        n \in it.min .. run}

\* The threads that follow thread t at item k: a literal and an anchor go on
\* or give up; an optional group goes on into the group first, past it
\* second.  A thread that is past item k already waits.
Advance(items, text, t, k) ==
    IF t.k # k THEN {[t EXCEPT !.key = Append(@, 0)]}
    ELSE LET it == items[k]
             To(pos, alt) == [k |-> k + 1, pos |-> pos, key |-> Append(t.key, alt)]
         IN  CASE it.k = "lit" ->
                    IF LitAt(text, t.pos, it) THEN {To(t.pos + Len(it.s), 0)} ELSE {}
               [] it.k = "cls" ->
                    ClassCounts(t, k, it, RunLen(text, t.pos, it))
               [] it.k = "opt" ->
                    {To(t.pos, 0),
                     [k |-> k + 1 + it.n, pos |-> t.pos, key |-> Append(t.key, 1)]}
               [] it.k = "bol" ->
                    IF t.pos = 0 THEN {To(t.pos, 0)} ELSE {}
               [] it.k = "eol" ->
                    IF t.pos = Len(text) THEN {To(t.pos, 0)} ELSE {}

\* key a comes before key b in the order of backtracking (a = b included);
\* the keys have the same length
Precedes(a, b) ==
    \A i \in DOMAIN a : a[i] > b[i] => \E j \in 1 .. i - 1 : a[j] < b[j]

\* the threads first, those after the first item, carried through the other
\* items side by side
Carried(items, text, first) ==
    IF first = {} THEN {}
    ELSE Loop([name |-> "items", items |-> items, text |-> text], first, 2, Len(items))

\* the end offset of the thread a backtracking engine finds first, the one
\* whose key comes first; Fail when no thread is left
Preferred(threads) ==
    IF threads = {} THEN Fail
    ELSE (CHOOSE t \in threads : \A u \in threads : Precedes(t.key, u.key)).pos

\* items matched at pos: the end offset of the first match in the order of
\* backtracking, or Fail
MatchAt(items, text, pos) ==
    Preferred(Carried(items, text,
                      Advance(items, text, [k |-> 1, pos |-> pos, key |-> <<>>], 1)))

-----------------------------------------------------------------------------
(* The regular expressions of the program                                  *)

AlnumUD == Alnum \cup {"_", "-"}

\* key[=:]\s*['"]?([a-zA-Z0-9_-]{20,})['"]?   (the tail of four literals)
AssignTail(cls) ==
    <<Cls({"=", ":"}, 1, 1), Cls(Space, 0, -1), Cls(Quote, 0, 1),
      cls, Cls(Quote, 0, 1)>>

ReApiKey1 ==
    LitI(<<"a", "p", "i">>) \o <<Cls({"_", "-"}, 0, 1)>> \o LitI(<<"k", "e", "y">>)
        \o AssignTail(Cls(AlnumUD, 20, -1))

ReApiKey2 == LitI(<<"a", "p", "i", "k", "e", "y">>) \o AssignTail(Cls(AlnumUD, 20, -1))

ReSecret1 == LitI(<<"s", "e", "c", "r", "e", "t">>) \o AssignTail(Cls(AlnumUD, 20, -1))

ReSecret2 ==
    LitI(<<"c", "l", "i", "e", "n", "t">>) \o <<Cls({"_", "-"}, 0, 1)>> \o LitI(<<"s", "e", "c", "r", "e", "t">>)
        \o AssignTail(Cls(AlnumUD, 20, -1))

RePassword1 == LitI(<<"p", "a", "s", "s", "w", "o", "r", "d">>) \o AssignTail(NCls(Space \cup Quote, 8, -1))

RePassword2 == LitI(<<"p", "a", "s", "s", "w", "d">>) \o AssignTail(NCls(Space \cup Quote, 8, -1))

ReBearer ==
    LitI(<<"b", "e", "a", "r", "e", "r">>) \o <<Cls(Space, 1, -1), Cls(Alnum \cup {"_", ".", "-"}, 20, -1)>>

ReAwsAccess == Lit(<<"A", "K", "I", "A">>) \o <<Cls(Digit \cup Upper, 16, 16)>>

ReAwsSecret ==
    LitI(<<"a", "w", "s">>) \o <<Cls({"_", "-"}, 0, 1)>> \o LitI(<<"s", "e", "c", "r", "e", "t">>)
        \o <<Cls({"_", "-"}, 0, 1)>> \o LitI(<<"a", "c", "c", "e", "s", "s">>)
        \o <<Cls({"_", "-"}, 0, 1)>> \o LitI(<<"k", "e", "y">>)
        \o AssignTail(Cls(Alnum \cup {"/", "+", "="}, 40, 40))

ReGithub(prefix) == Lit(prefix) \o <<Cls(Alnum, 36, 36)>>

ReGitlab == Lit(<<"g", "l", "p", "a", "t", "-">>) \o <<Cls(AlnumUD, 20, -1)>>

ReSlack ==
    Lit(<<"x", "o", "x">>) \o <<Cls({"b", "a", "p", "r", "s"}, 1, 1), Cls({"-"}, 1, 1),
                    Cls(Alnum \cup {"-"}, 10, -1)>>

RePrivateKey1 ==
    Lit(<<"-", "-", "-", "-", "-", "B", "E", "G", "I", "N">>) \o <<Cls(Space, 1, -1), Opt(2)>> \o Lit(<<"R", "S", "A">>)
        \o <<Cls(Space, 1, -1)>> \o Lit(<<"P", "R", "I", "V", "A", "T", "E">>) \o <<Cls(Space, 1, -1)>>
        \o Lit(<<"K", "E", "Y", "-", "-", "-", "-", "-">>) \o <<AnyLazy>>
        \o Lit(<<"-", "-", "-", "-", "-", "E", "N", "D">>) \o <<Cls(Space, 1, -1), Opt(2)>> \o Lit(<<"R", "S", "A">>)
        \o <<Cls(Space, 1, -1)>> \o Lit(<<"P", "R", "I", "V", "A", "T", "E">>) \o <<Cls(Space, 1, -1)>>
        \o Lit(<<"K", "E", "Y", "-", "-", "-", "-", "-">>)

RePrivateKey2 ==
    Lit(<<"-", "-", "-", "-", "-", "B", "E", "G", "I", "N">>) \o <<Cls(Space, 1, -1)>> \o Lit(<<"E", "C">>)
        \o <<Cls(Space, 1, -1)>> \o Lit(<<"P", "R", "I", "V", "A", "T", "E">>) \o <<Cls(Space, 1, -1)>>
        \o Lit(<<"K", "E", "Y", "-", "-", "-", "-", "-">>) \o <<AnyLazy>>
        \o Lit(<<"-", "-", "-", "-", "-", "E", "N", "D">>) \o <<Cls(Space, 1, -1)>> \o Lit(<<"E", "C">>)
        \o <<Cls(Space, 1, -1)>> \o Lit(<<"P", "R", "I", "V", "A", "T", "E">>) \o <<Cls(Space, 1, -1)>>
        \o Lit(<<"K", "E", "Y", "-", "-", "-", "-", "-">>)

ReJwt ==
    Lit(<<"e", "y", "J">>) \o <<Cls(AlnumUD, 0, -1)>> \o Lit(<<".", "e", "y", "J">>)
        \o <<Cls(AlnumUD, 0, -1), Cls({"."}, 1, 1), Cls(AlnumUD, 0, -1)>>

\* Expressions registered by callers (tests and documentation).
ReCustom == Lit(<<"C", "U", "S", "T", "O", "M", "_">>) \o <<Cls(Upper \cup Digit, 20, 20)>>

ReTestKey == <<Bol>> \o Lit(<<"t", "e", "s", "t", "-">>) \o <<Cls(Lower, 10, 10), Eol>>

ReWord == <<Cls(Lower, 4, 4), Cls({"-"}, 1, 1), Cls(Lower, 1, -1)>>

ReFirst == Lit(<<"f", "i", "r", "s", "t">>)

ReXStar == <<Cls({"x"}, 0, -1)>>

ReStars == <<Cls({"*"}, 3, 3)>>

\* A RegExp object: the items of its source and its g flag.
Compile(p) ==
    CASE p = "/api[_-]?key[=:]\\s*['\"]?([a-zA-Z0-9_-]{20,})['\"]?/gi" ->
            [items |-> ReApiKey1, global |-> TRUE]
      [] p = "/apikey[=:]\\s*['\"]?([a-zA-Z0-9_-]{20,})['\"]?/gi" ->
            [items |-> ReApiKey2, global |-> TRUE]
      [] p = "/secret[=:]\\s*['\"]?([a-zA-Z0-9_-]{20,})['\"]?/gi" ->
            [items |-> ReSecret1, global |-> TRUE]
      [] p = "/client[_-]?secret[=:]\\s*['\"]?([a-zA-Z0-9_-]{20,})['\"]?/gi" ->
            [items |-> ReSecret2, global |-> TRUE]
      [] p = "/password[=:]\\s*['\"]?([^\\s'\"]{8,})['\"]?/gi" ->
            [items |-> RePassword1, global |-> TRUE]
      [] p = "/passwd[=:]\\s*['\"]?([^\\s'\"]{8,})['\"]?/gi" ->
            [items |-> RePassword2, global |-> TRUE]
      [] p = "/bearer\\s+([a-zA-Z0-9_.-]{20,})/gi" ->
            [items |-> ReBearer, global |-> TRUE]
      [] p = "/AKIA[0-9A-Z]{16}/g" ->
            [items |-> ReAwsAccess, global |-> TRUE]
      [] p = "/aws[_-]?secret[_-]?access[_-]?key[=:]\\s*['\"]?([a-zA-Z0-9/+=]{40})['\"]?/gi" ->
            [items |-> ReAwsSecret, global |-> TRUE]
      [] p = "/ghp_[a-zA-Z0-9]{36}/g" ->
            [items |-> ReGithub(<<"g", "h", "p", "_">>), global |-> TRUE]
      [] p = "/gho_[a-zA-Z0-9]{36}/g" ->
            [items |-> ReGithub(<<"g", "h", "o", "_">>), global |-> TRUE]
      [] p = "/ghu_[a-zA-Z0-9]{36}/g" ->
            [items |-> ReGithub(<<"g", "h", "u", "_">>), global |-> TRUE]
      [] p = "/ghs_[a-zA-Z0-9]{36}/g" ->
            [items |-> ReGithub(<<"g", "h", "s", "_">>), global |-> TRUE]
      [] p = "/ghr_[a-zA-Z0-9]{36}/g" ->
            [items |-> ReGithub(<<"g", "h", "r", "_">>), global |-> TRUE]
      [] p = "/glpat-[a-zA-Z0-9_-]{20,}/g" ->
            [items |-> ReGitlab, global |-> TRUE]
      [] p = "/xox[baprs]-[a-zA-Z0-9-]{10,}/g" ->
            [items |-> ReSlack, global |-> TRUE]
      [] p = "/-----BEGIN\\s+(?:RSA\\s+)?PRIVATE\\s+KEY-----[\\s\\S]*?-----END\\s+(?:RSA\\s+)?PRIVATE\\s+KEY-----/g" ->
            [items |-> RePrivateKey1, global |-> TRUE]
      [] p = "/-----BEGIN\\s+EC\\s+PRIVATE\\s+KEY-----[\\s\\S]*?-----END\\s+EC\\s+PRIVATE\\s+KEY-----/g" ->
            [items |-> RePrivateKey2, global |-> TRUE]
      [] p = "/eyJ[a-zA-Z0-9_-]*\\.eyJ[a-zA-Z0-9_-]*\\.[a-zA-Z0-9_-]*/g" ->
            [items |-> ReJwt, global |-> TRUE]
      [] p = "/CUSTOM_[A-Z0-9]{20}/g" ->
            [items |-> ReCustom, global |-> TRUE]
      [] p = "/^test-[a-z]{10}$/g" ->
            [items |-> ReTestKey, global |-> TRUE]
      [] p = "/[a-z]{4}-[a-z]+/g" ->
            [items |-> ReWord, global |-> TRUE]
      [] p = "/first/" ->
            [items |-> ReFirst, global |-> FALSE]
      [] p = "/x*/g" ->
            [items |-> ReXStar, global |-> TRUE]
      [] p = "/\\*{3}/g" ->
            [items |-> ReStars, global |-> TRUE]

-----------------------------------------------------------------------------
(* RegExp.prototype.exec and String.prototype.replace                      *)

NoMatch == [index |-> -1, end |-> -1]

\* Scan(items, text)[p + 1]: the end of the match that starts at offset p of
\* text, or Fail; one entry for each offset 0 .. Len(text)
Scan(items, text) ==
    <<>> \o [i \in 1 .. Len(text) + 1 |-> MatchAt(items, text, i - 1)]

\* the least offset in lo..hi at which a match starts, or Fail
FirstMatch(ends, lo, hi) == Least({i \in lo .. hi : ends[i + 1] # Fail}, Fail)

\* what exec returns and the lastIndex it leaves when the leftmost match from
\* where the search starts is at offset at (Fail: there is none); without the
\* g flag lastIndex is not written
ExecResult(re, ends, lastIndex, at) ==
    IF at = Fail
    THEN [m |-> NoMatch, lastIndex |-> IF re.global THEN 0 ELSE lastIndex]
    ELSE [m |-> [index |-> at, end |-> ends[at + 1]],
          lastIndex |-> IF re.global THEN ends[at + 1] ELSE lastIndex]

\* pattern.exec(text) with pattern.lastIndex = lastIndex, ends being
\* Scan(re.items, text); without the g flag the search starts at 0
execOn(re, ends, lastIndex) ==
    ExecResult(re, ends, lastIndex,
               FirstMatch(ends, IF re.global THEN lastIndex ELSE 0, Len(ends) - 1))

exec(re, text, lastIndex) == execOn(re, Scan(re.items, text), lastIndex)

\* pattern.test(text)
test(re, text, lastIndex) == exec(re, text, lastIndex).m # NoMatch

\* the loop in which String.prototype.replace collects the matches of a g
\* pattern, after exec has returned r: done when r is null, and lastIndex
\* stepped by one after an empty match
Collected(st, r) ==
    IF r.m = NoMatch THEN [st EXCEPT !.done = TRUE]
    ELSE [lastIndex |-> IF r.m.end = r.m.index THEN r.lastIndex + 1 ELSE r.lastIndex,
          ms |-> Append(st.ms, r.m),
          done |-> FALSE]

\* one turn of that loop
CollectTurn(re, ends, st) ==
    IF st.done THEN st ELSE Collected(st, execOn(re, ends, st.lastIndex))

\* all matches of a g pattern; every turn but the last moves lastIndex on by
\* one at least, so Len(text) + 2 turns end the loop
MatchAll(re, ends) ==
    IF \A i \in DOMAIN ends : ends[i] = Fail THEN <<>>
    ELSE Loop([name |-> "replace", re |-> re, ends |-> ends],
              [lastIndex |-> 0, ms |-> <<>>, done |-> FALSE], 1, Len(ends) + 1).ms

\* the first match only
FirstOnly(r) == IF r.m = NoMatch THEN <<>> ELSE <<r.m>>

\* the matches replace works on: every match for a g pattern, the first match
\* only otherwise
ReplaceMatchesOn(re, ends) ==
    IF re.global THEN MatchAll(re, ends) ELSE FirstOnly(execOn(re, ends, 0))

ReplaceMatches(re, text) == ReplaceMatchesOn(re, Scan(re.items, text))

\* seqs[1] \o ... \o seqs[Len(seqs)]
Flatten(seqs) == Loop([name |-> "concat", seqs |-> seqs], <<>>, 1, Len(seqs))

\* text with the span of each event replaced by the event's out; the events
\* are in text order and their spans do not overlap
Splice(text, evs) ==
    LET End(i) == IF i = 0 THEN 0 ELSE evs[i].index + Len(evs[i].match)
        pieces == <<>> \o [i \in DOMAIN evs |->
                      SubSeq(text, End(i - 1) + 1, evs[i].index) \o evs[i].out]
    IN  Flatten(pieces) \o SubSeq(text, End(Len(evs)) + 1, Len(text))

-----------------------------------------------------------------------------
(* Callbacks supplied by callers: validators and replacement functions     *)

\* registration.validator(value); "none" is a rule without validator
CallValidator(v, value) ==
    CASE v = "rejectAll" -> FALSE
      [] v = "acceptAll" -> TRUE
      [] v = "startsWithTest" ->
            Len(value) >= 5 /\ SubSeq(value, 1, 5) = <<"t", "e", "s", "t", "-">>

\* the characters of a rule name
NameChars(name) ==
    CASE name = "generic-api-key" -> <<"g", "e", "n", "e", "r", "i", "c", "-", "a", "p", "i", "-", "k", "e", "y">>
      [] name = "generic-secret" -> <<"g", "e", "n", "e", "r", "i", "c", "-", "s", "e", "c", "r", "e", "t">>
      [] name = "generic-password" -> <<"g", "e", "n", "e", "r", "i", "c", "-", "p", "a", "s", "s", "w", "o", "r", "d">>
      [] name = "bearer-token" -> <<"b", "e", "a", "r", "e", "r", "-", "t", "o", "k", "e", "n">>
      [] name = "aws-access-key" -> <<"a", "w", "s", "-", "a", "c", "c", "e", "s", "s", "-", "k", "e", "y">>
      [] name = "aws-secret-key" -> <<"a", "w", "s", "-", "s", "e", "c", "r", "e", "t", "-", "k", "e", "y">>
      [] name = "github-token" -> <<"g", "i", "t", "h", "u", "b", "-", "t", "o", "k", "e", "n">>
      [] name = "gitlab-token" -> <<"g", "i", "t", "l", "a", "b", "-", "t", "o", "k", "e", "n">>
      [] name = "slack-token" -> <<"s", "l", "a", "c", "k", "-", "t", "o", "k", "e", "n">>
      [] name = "private-key" -> <<"p", "r", "i", "v", "a", "t", "e", "-", "k", "e", "y">>
      [] name = "jwt" -> <<"j", "w", "t">>
      [] name = "custom" -> <<"c", "u", "s", "t", "o", "m">>
      [] name = "test-key" -> <<"t", "e", "s", "t", "-", "k", "e", "y">>
      [] name = "word" -> <<"w", "o", "r", "d">>
      [] name = "empty" -> <<"e", "m", "p", "t", "y">>
      [] name = "test" -> <<"t", "e", "s", "t">>
      [] name = "stars" -> <<"s", "t", "a", "r", "s">>

\* replacementFn(match, patternName)
CallReplacementFn(fn, match, patternName) ==
    CASE fn = "default" -> <<"[", "R", "E", "D", "A", "C", "T", "E", "D", ":">> \o NameChars(patternName) \o <<"]">>
      [] fn = "angle" -> <<"<">> \o NameChars(patternName) \o <<">">>

-----------------------------------------------------------------------------
(* PatternRegistry: a Map from name to registration, in insertion order    *)

DEFAULT_PATTERNS ==
    << [name |-> "generic-api-key", validator |-> "none", patterns |->
          <<"/api[_-]?key[=:]\\s*['\"]?([a-zA-Z0-9_-]{20,})['\"]?/gi",
            "/apikey[=:]\\s*['\"]?([a-zA-Z0-9_-]{20,})['\"]?/gi">>],
       [name |-> "generic-secret", validator |-> "none", patterns |->
          <<"/secret[=:]\\s*['\"]?([a-zA-Z0-9_-]{20,})['\"]?/gi",
            "/client[_-]?secret[=:]\\s*['\"]?([a-zA-Z0-9_-]{20,})['\"]?/gi">>],
       [name |-> "generic-password", validator |-> "none", patterns |->
          <<"/password[=:]\\s*['\"]?([^\\s'\"]{8,})['\"]?/gi",
            "/passwd[=:]\\s*['\"]?([^\\s'\"]{8,})['\"]?/gi">>],
       [name |-> "bearer-token", validator |-> "none", patterns |->
          <<"/bearer\\s+([a-zA-Z0-9_.-]{20,})/gi">>],
       [name |-> "aws-access-key", validator |-> "none", patterns |->
          <<"/AKIA[0-9A-Z]{16}/g">>],
       [name |-> "aws-secret-key", validator |-> "none", patterns |->
          <<"/aws[_-]?secret[_-]?access[_-]?key[=:]\\s*['\"]?([a-zA-Z0-9/+=]{40})['\"]?/gi">>],
       [name |-> "github-token", validator |-> "none", patterns |->
          <<"/ghp_[a-zA-Z0-9]{36}/g", "/gho_[a-zA-Z0-9]{36}/g",
            "/ghu_[a-zA-Z0-9]{36}/g", "/ghs_[a-zA-Z0-9]{36}/g",
            "/ghr_[a-zA-Z0-9]{36}/g">>],
       [name |-> "gitlab-token", validator |-> "none", patterns |->
          <<"/glpat-[a-zA-Z0-9_-]{20,}/g">>],
       [name |-> "slack-token", validator |-> "none", patterns |->
          <<"/xox[baprs]-[a-zA-Z0-9-]{10,}/g">>],
       [name |-> "private-key", validator |-> "none", patterns |->
          <<"/-----BEGIN\\s+(?:RSA\\s+)?PRIVATE\\s+KEY-----[\\s\\S]*?-----END\\s+(?:RSA\\s+)?PRIVATE\\s+KEY-----/g",
            "/-----BEGIN\\s+EC\\s+PRIVATE\\s+KEY-----[\\s\\S]*?-----END\\s+EC\\s+PRIVATE\\s+KEY-----/g">>],
       [name |-> "jwt", validator |-> "none", patterns |->
          <<"/eyJ[a-zA-Z0-9_-]*\\.eyJ[a-zA-Z0-9_-]*\\.[a-zA-Z0-9_-]*/g">> ] >>

\* the position of the entry with key name, 0 when there is none
IndexOf(map, name) ==
    IF \E i \in DOMAIN map : map[i].name = name
    THEN CHOOSE i \in DOMAIN map : map[i].name = name
    ELSE 0

\* register with the rule always added at the end, whether or not the name is
\* already a key
registerAppend(map, registration) == Append(map, registration)

\* register with an overwritten rule moved to the end
registerMoveToEnd(map, registration) ==
    Append(SelectSeq(map, LAMBDA r : r.name # registration.name), registration)

\* register with a new key put in front of the keys there are
registerAtFront(map, registration) ==
    IF IndexOf(map, registration.name) # 0
    THEN [map EXCEPT ![IndexOf(map, registration.name)] = registration]
    ELSE <<registration>> \o map

\* this.patterns.set(registration.name, registration): an existing key keeps
\* its place and takes the new value, a new key goes to the end
register(map, registration) ==
    IF IndexOf(map, registration.name) # 0
    THEN [map EXCEPT ![IndexOf(map, registration.name)] = registration]
    ELSE Append(map, registration)

\* unregister that answers true whether or not the name was a key
unregisterAlwaysTrue(map, name) ==
    [map |-> SelectSeq(map, LAMBDA r : r.name # name), result |-> TRUE]

\* this.patterns.delete(name): the map afterwards and the value returned
unregister(map, name) ==
    [map |-> SelectSeq(map, LAMBDA r : r.name # name),
     result |-> IndexOf(map, name) # 0]

has(map, name) == IndexOf(map, name) # 0

Undefined == [undefined |-> TRUE]

get(map, name) == IF has(map, name) THEN map[IndexOf(map, name)] ELSE Undefined

getAll(map) == map

clear(map) == <<>>

size(map) == Len(map)

registerDefaults(map) ==
    Loop([name |-> "registerDefaults"], map, 1, Len(DEFAULT_PATTERNS))

\* a constructor that registers the defaults whatever includeDefaults is
NewPatternRegistryWithDefaults(includeDefaults) == registerDefaults(<<>>)

\* new PatternRegistry(includeDefaults)
NewPatternRegistry(includeDefaults) ==
    IF includeDefaults THEN registerDefaults(<<>>) ELSE <<>>

-----------------------------------------------------------------------------
(* SecretRedactor.  The RegExp objects of the rules are shared by every    *)
(* registry and engine holding the rules; cursors[p] is lastIndex of the    *)
(* object of the literal p.                                                *)

\* lastIndex of every regex of the rules, as the literals leave it
NewLastIndex(rules) ==
    [p \in UNION {{rules[i].patterns[j] : j \in DOMAIN rules[i].patterns} :
                     i \in DOMAIN rules} |-> 0]

\* the assignment left out
ResetLastIndexSkipped(cursors, p) == cursors

\* pattern.lastIndex = 0
ResetLastIndex(cursors, p) == [cursors EXCEPT ![p] = 0]

\* lastIndex after replace: a g pattern is left at 0, any other as it was
AfterReplace(cursors, p) == [cursors EXCEPT ![p] = IF Compile(p).global THEN 0 ELSE @]

DEFAULT_CONFIG ==
    [replacement |-> <<"[", "R", "E", "D", "A", "C", "T", "E", "D", "]">>,
     includePatternName |-> FALSE,
     replacementFn |-> "default"]

\* { ...DEFAULT_CONFIG, ...config }: config is a record holding any of the keys
MergeConfig(c) ==
    [k \in DOMAIN DEFAULT_CONFIG |-> IF k \in DOMAIN c THEN c[k] ELSE DEFAULT_CONFIG[k]]

\* the callback without the validator test
ReplaceCallbackUngated(registration, cfg, match) ==
    IF cfg.includePatternName
    THEN [out |-> CallReplacementFn(cfg.replacementFn, match, registration.name),
          accepted |-> TRUE, fn |-> TRUE]
    ELSE [out |-> cfg.replacement, accepted |-> TRUE, fn |-> FALSE]

\* the callback that returns nothing for a match the validator rejects
ReplaceCallbackDropsRejected(registration, cfg, match) ==
    IF registration.validator # "none" /\ ~CallValidator(registration.validator, match)
    THEN [out |-> <<>>, accepted |-> FALSE, fn |-> FALSE]
    ELSE IF cfg.includePatternName
         THEN [out |-> CallReplacementFn(cfg.replacementFn, match, registration.name),
               accepted |-> TRUE, fn |-> TRUE]
         ELSE [out |-> cfg.replacement, accepted |-> TRUE, fn |-> FALSE]

\* the callback with the flat replacement whatever includePatternName is
ReplaceCallbackFlat(registration, cfg, match) ==
    IF registration.validator # "none" /\ ~CallValidator(registration.validator, match)
    THEN [out |-> match, accepted |-> FALSE, fn |-> FALSE]
    ELSE [out |-> cfg.replacement, accepted |-> TRUE, fn |-> FALSE]

\* The callback redact hands to replace: what it returns for one match, and
\* whether the validator accepted the match and replacementFn was called.
ReplaceCallback(registration, cfg, match) ==
    IF registration.validator # "none" /\ ~CallValidator(registration.validator, match)
    THEN [out |-> match, accepted |-> FALSE, fn |-> FALSE]
    ELSE IF cfg.includePatternName
         THEN [out |-> CallReplacementFn(cfg.replacementFn, match, registration.name),
               accepted |-> TRUE, fn |-> TRUE]
         ELSE [out |-> cfg.replacement, accepted |-> TRUE, fn |-> FALSE]

\* the call of the callback for the match mt at offset index, cb being what
\* the callback does
Event(registration, p, index, mt, cb) ==
    [name |-> registration.name, pattern |-> p, index |-> index, match |-> mt,
     accepted |-> cb.accepted, fn |-> cb.fn, out |-> cb.out]

\* the calls of the callback for the matches ms of pattern p in text
Events(registration, p, cfg, text, ms) ==
    <<>> \o [i \in DOMAIN ms |->
                Event(registration, p, ms[i].index, SubSeq(text, ms[i].index + 1, ms[i].end),
                      ReplaceCallback(registration, cfg,
                                      SubSeq(text, ms[i].index + 1, ms[i].end)))]

\* acc after replace has called the callback as evs tells
Replaced(acc, evs) == [acc EXCEPT !.text = Splice(@, evs), !.events = @ \o evs]

\* acc after replace has found the matches ms; without a match replace
\* returns the text as it is
ReplaceWith(acc, registration, p, cfg, ms) ==
    IF ms = <<>> THEN acc
    ELSE Replaced(acc, Events(registration, p, cfg, acc.text, ms))

\* pattern.lastIndex = 0; result = result.replace(pattern, callback) for one
\* pattern of one rule.  acc.text is result; acc.events records each call of
\* the callback.
ReplaceStep(acc, registration, p, cfg) ==
    ReplaceWith([acc EXCEPT !.cursors = AfterReplace(ResetLastIndex(@, p), p)],
                registration, p, cfg, ReplaceMatches(Compile(p), acc.text))

\* for (const pattern of registration.patterns)
RedactPatterns(acc, registration, cfg) ==
    Loop([name |-> "redact patterns", registration |-> registration, cfg |-> cfg],
         acc, 1, Len(registration.patterns))

\* the loop over the rules taking the last rule first
RedactRulesReversed(acc, rules, cfg) ==
    Loop([name |-> "redact rules",
          rules |-> [i \in DOMAIN rules |-> rules[Len(rules) + 1 - i]], cfg |-> cfg],
         acc, 1, Len(rules))

\* for (const registration of patterns)
RedactRules(acc, rules, cfg) ==
    Loop([name |-> "redact rules", rules |-> rules, cfg |-> cfg], acc, 1, Len(rules))

\* redact without the test for the empty text
redactRunNoFastPath(map, cfg, content) ==
    RedactRules([text |-> content, events |-> <<>>, cursors |-> NewLastIndex(getAll(map))],
                getAll(map), cfg)

\* redact over the default rules instead of the rules the registry holds now
redactRunDefaultRules(map, cfg, content) ==
    IF content = <<>> THEN [text |-> content, events |-> <<>>]
    ELSE RedactRules([text |-> content, events |-> <<>>,
                      cursors |-> NewLastIndex(DEFAULT_PATTERNS)],
                     getAll(registerDefaults(<<>>)), cfg)

\* redact(content) called with the regexes at cursors: the text returned,
\* the callback calls made on the way and the cursors left
redactRunFrom(map, cfg, content, cursors) ==
    IF content = <<>> THEN [text |-> content, events |-> <<>>, cursors |-> cursors]
    ELSE RedactRules([text |-> content, events |-> <<>>, cursors |-> cursors],
                     getAll(map), cfg)

\* redact(content) called with every regex as its literal left it
redactRun(map, cfg, content) ==
    redactRunFrom(map, cfg, content, NewLastIndex(getAll(map)))

redact(map, cfg, content) == redactRun(map, cfg, content).text

\* the preview that keeps the first character and the last one
redactValueOneEach(value) ==
    IF Len(value) <= 8 THEN <<"*", "*", "*">>
    ELSE SubSeq(value, 1, 1) \o <<".", ".", ".">> \o SubSeq(value, Len(value), Len(value))

\* redactValue(value)
redactValue(value) ==
    IF Len(value) <= 8 THEN <<"*", "*", "*">>
    ELSE SubSeq(value, 1, 2) \o <<".", ".", ".">> \o SubSeq(value, Len(value) - 1, Len(value))

\* the body reporting the offset the search resumed from (lastIndex before
\* exec) as startIndex, in place of match.index
DetectedFromLastIndex(registration, content, st, r) ==
    IF r.m = NoMatch THEN [st EXCEPT !.done = TRUE, !.lastIndex = r.lastIndex]
    ELSE IF r.lastIndex = st.lastIndex THEN [st EXCEPT !.hang = TRUE, !.done = TRUE]
    ELSE LET mt == SubSeq(content, r.m.index + 1, r.m.end) IN
         IF registration.validator # "none" /\ ~CallValidator(registration.validator, mt)
         THEN [st EXCEPT !.lastIndex = r.lastIndex]
         ELSE [st EXCEPT !.lastIndex = r.lastIndex,
                         !.matches = Append(@, [patternName |-> registration.name,
                                                startIndex |-> st.lastIndex,
                                                endIndex |-> st.lastIndex + Len(mt),
                                                redactedValue |-> redactValue(mt)])]

\* the body that pushes no second entry for a span already reported
DetectedMerged(registration, content, st, r) ==
    IF r.m = NoMatch THEN [st EXCEPT !.done = TRUE, !.lastIndex = r.lastIndex]
    ELSE IF r.lastIndex = st.lastIndex THEN [st EXCEPT !.hang = TRUE, !.done = TRUE]
    ELSE LET mt == SubSeq(content, r.m.index + 1, r.m.end) IN
         IF \/ registration.validator # "none" /\ ~CallValidator(registration.validator, mt)
            \/ \E i \in DOMAIN st.matches :
                  st.matches[i].startIndex = r.m.index /\ st.matches[i].endIndex = r.m.end
         THEN [st EXCEPT !.lastIndex = r.lastIndex]
         ELSE [st EXCEPT !.lastIndex = r.lastIndex,
                         !.matches = Append(@, [patternName |-> registration.name,
                                                startIndex |-> r.m.index,
                                                endIndex |-> r.m.index + Len(mt),
                                                redactedValue |-> redactValue(mt)])]

\* while ((match = pattern.exec(content)) !== null) { ... } after exec has
\* returned r.  The loop leaves only when r is null (done); when r is a match
\* and lastIndex is where it was, every later turn repeats this one and the
\* loop never leaves (hang).
Detected(registration, content, st, r) ==
    IF r.m = NoMatch THEN [st EXCEPT !.done = TRUE, !.lastIndex = r.lastIndex]
    ELSE IF r.lastIndex = st.lastIndex THEN [st EXCEPT !.hang = TRUE, !.done = TRUE]
    ELSE LET mt == SubSeq(content, r.m.index + 1, r.m.end) IN
         IF registration.validator # "none" /\ ~CallValidator(registration.validator, mt)
         THEN [st EXCEPT !.lastIndex = r.lastIndex]
         ELSE [st EXCEPT !.lastIndex = r.lastIndex,
                         !.matches = Append(@, [patternName |-> registration.name,
                                                startIndex |-> r.m.index,
                                                endIndex |-> r.m.index + Len(mt),
                                                redactedValue |-> redactValue(mt)])]

\* one turn of that loop; st.matches are the matches pushed so far
DetectTurn(re, ends, registration, content, st) ==
    IF st.done THEN st
    ELSE Detected(registration, content, st, execOn(re, ends, st.lastIndex))

\* the while loop for the pattern re from acc.lastIndex, ends being
\* Scan(re.items, content); every turn that does not hang moves lastIndex on
\* by one at least, so Len(content) + 2 turns end the loop.  Nothing runs
\* after a loop that never leaves.  (Without a match anywhere the one exec
\* returns null.)
DetectLoopOn(acc, registration, re, ends, content) ==
    IF acc.hang THEN acc
    ELSE IF \A i \in DOMAIN ends : ends[i] = Fail
    THEN [acc EXCEPT !.lastIndex = IF re.global THEN 0 ELSE @]
    ELSE Loop([name |-> "exec", re |-> re, ends |-> ends,
               registration |-> registration, content |-> content],
              [acc EXCEPT !.done = FALSE], 1, Len(ends) + 1)

DetectLoopWith(acc, registration, re, content) ==
    DetectLoopOn(acc, registration, re, Scan(re.items, content), content)

\* the loop has left the regex of p at acc.lastIndex
LoopLeft(acc, p) == IF acc.hang THEN acc ELSE [acc EXCEPT !.cursors[p] = acc.lastIndex]

\* pattern.lastIndex = 0 and the while loop, for the pattern p
DetectLoop(acc, registration, p, content) ==
    LoopLeft(DetectLoopWith([acc EXCEPT !.lastIndex = ResetLastIndex(acc.cursors, p)[p]],
                            registration, Compile(p), content), p)

\* for (const pattern of registration.patterns)
DetectPatterns(acc, registration, content) ==
    Loop([name |-> "detect patterns", registration |-> registration, content |-> content],
         acc, 1, Len(registration.patterns))

\* for (const registration of patterns)
DetectRules(acc, rules, content) ==
    Loop([name |-> "detect rules", rules |-> rules, content |-> content],
         acc, 1, Len(rules))

\* what detect returns after the loops have left acc: outcome "returned" with
\* the DetectionResult, or "hang" when a loop never leaves
DetectionResult(acc) ==
    IF acc.hang THEN [outcome |-> "hang", found |-> FALSE, matches |-> <<>>]
    ELSE [outcome |-> "returned", found |-> Len(acc.matches) > 0, matches |-> acc.matches]

\* what detect returns and the cursors it leaves
DetectRan(acc) == [result |-> DetectionResult(acc), cursors |-> acc.cursors]

\* detect(content) called with the regexes at cursors
detectFrom(map, content, cursors) ==
    IF content = <<>>
    THEN [result |-> [outcome |-> "returned", found |-> FALSE, matches |-> <<>>],
          cursors |-> cursors]
    ELSE DetectRan(DetectRules([hang |-> FALSE, matches |-> <<>>, lastIndex |-> 0,
                                done |-> FALSE, cursors |-> cursors],
                               getAll(map), content))

\* detect(content) called with every regex as its literal left it
detect(map, content) == detectFrom(map, content, NewLastIndex(getAll(map))).result

\* pattern.test(value) with the regex of p at cursors[p]: whether it matches
\* and the cursors left
Tested(cursors, p, r) ==
    [matches |-> r.m # NoMatch, cursors |-> [cursors EXCEPT ![p] = r.lastIndex]]

\* the callback of some: pattern.lastIndex = 0; return pattern.test(value);
\* some stops calling it at the first pattern that matches
SomeTurn(acc, p, value) ==
    IF acc.matches THEN acc
    ELSE Tested(ResetLastIndex(acc.cursors, p), p,
                exec(Compile(p), value, ResetLastIndex(acc.cursors, p)[p]))

\* one turn of each loop of the program
LoopBody(loop, acc, i) ==
    CASE loop.name = "items" ->
            UNION {Advance(loop.items, loop.text, t, i) : t \in acc}
      [] loop.name = "replace" ->
            CollectTurn(loop.re, loop.ends, acc)
      [] loop.name = "concat" ->
            acc \o loop.seqs[i]
      [] loop.name = "registerDefaults" ->
            register(acc, DEFAULT_PATTERNS[i])
      [] loop.name = "redact patterns" ->
            ReplaceStep(acc, loop.registration, loop.registration.patterns[i], loop.cfg)
      [] loop.name = "redact rules" ->
            RedactPatterns(acc, loop.rules[i], loop.cfg)
      [] loop.name = "exec" ->
            DetectTurn(loop.re, loop.ends, loop.registration, loop.content, acc)
      [] loop.name = "detect patterns" ->
            DetectLoop(acc, loop.registration, loop.registration.patterns[i], loop.content)
      [] loop.name = "detect rules" ->
            DetectPatterns(acc, loop.rules[i], loop.content)
      [] loop.name = "some" ->
            SomeTurn(acc, loop.patterns[i], loop.value)

\* The turns lo..hi in order.  (The range is taken by quarters, each evaluated
\* before the next, so that the evaluation stays shallow.)
Loop(loop, acc, lo, hi) ==
    IF lo > hi THEN acc
    ELSE IF lo = hi THEN LoopBody(loop, acc, lo)
    ELSE LET q == (hi - lo) \div 4 + 1
             Upto(x) == IF x < hi THEN x ELSE hi
             a == Loop(loop, acc, lo, lo + q - 1)
             b == Loop(loop, a, lo + q, Upto(lo + 2 * q - 1))
             c == Loop(loop, b, lo + 2 * q, Upto(lo + 3 * q - 1))
             d == Loop(loop, c, lo + 3 * q, hi)
         IN  <<a, b, c, d>>[4]

\* validateKey asking the validator first and the patterns second
validateKeyValidatorFirst(map, value, patternName) ==
    LET registration == get(map, patternName) IN
    IF registration = Undefined
    THEN [valid |-> FALSE, patternName |-> patternName,
          error |-> "Pattern '" \o patternName \o "' not found", calls |-> <<>>]
    ELSE IF registration.validator # "none" /\ ~CallValidator(registration.validator, value)
    THEN [valid |-> FALSE, patternName |-> patternName,
          error |-> "Value failed validation", calls |-> <<value>>]
    ELSE IF ~\E j \in DOMAIN registration.patterns :
                test(Compile(registration.patterns[j]), value, 0)
    THEN [valid |-> FALSE, patternName |-> patternName,
          error |-> "Value does not match pattern format",
          calls |-> IF registration.validator # "none" THEN <<value>> ELSE <<>>]
    ELSE [valid |-> TRUE, patternName |-> patternName, error |-> "",
          calls |-> IF registration.validator # "none" THEN <<value>> ELSE <<>>]

\* some that takes every value for a match
MatchesPatternAlways(registration, value, cursors) ==
    [matches |-> TRUE, cursors |-> cursors]

\* registration.patterns.some(pattern => { ... }) with the regexes at cursors
MatchesPattern(registration, value, cursors) ==
    Loop([name |-> "some", patterns |-> registration.patterns, value |-> value],
         [matches |-> FALSE, cursors |-> cursors], 1, Len(registration.patterns))

\* validateKey from the test of the patterns on, matchesPattern being what
\* some returned; error "" stands for no error, and calls lists the values
\* the rule's validator was called with
Validated(registration, value, patternName, matchesPattern) ==
    IF ~matchesPattern
    THEN [valid |-> FALSE, patternName |-> patternName,
          error |-> "Value does not match pattern format", calls |-> <<>>]
    ELSE IF registration.validator # "none"
    THEN LET isValid == CallValidator(registration.validator, value) IN
         [valid |-> isValid, patternName |-> patternName,
          error |-> IF isValid THEN "" ELSE "Value failed validation",
          calls |-> <<value>>]
    ELSE [valid |-> TRUE, patternName |-> patternName, error |-> "", calls |-> <<>>]

\* what validateKey returns and the cursors it leaves, some being what the
\* call of some gave
ValidateRan(registration, value, patternName, some) ==
    [result |-> Validated(registration, value, patternName, some.matches),
     cursors |-> some.cursors]

\* validateKey(value, patternName) called with the regexes at cursors
validateKeyFrom(map, value, patternName, cursors) ==
    IF get(map, patternName) = Undefined
    THEN [result |-> [valid |-> FALSE, patternName |-> patternName,
                      error |-> "Pattern '" \o patternName \o "' not found",
                      calls |-> <<>>],
          cursors |-> cursors]
    ELSE ValidateRan(get(map, patternName), value, patternName,
                     MatchesPattern(get(map, patternName), value, cursors))

\* validateKey(value, patternName) called with every regex as its literal
\* left it
validateKey(map, value, patternName) ==
    validateKeyFrom(map, value, patternName, NewLastIndex(getAll(map))).result

-----------------------------------------------------------------------------
(* Inputs                                                                  *)

MaxWrites == 2

\* registrations callers hand to register
RuleCustom ==
    [name |-> "custom", validator |-> "none",
     patterns |-> <<"/CUSTOM_[A-Z0-9]{20}/g">>]

RuleGithubRejected ==
    [name |-> "github-token", validator |-> "rejectAll",
     patterns |-> <<"/ghp_[a-zA-Z0-9]{36}/g">>]

RuleWord ==
    [name |-> "word", validator |-> "startsWithTest",
     patterns |-> <<"/[a-z]{4}-[a-z]+/g">>]

RuleEmpty ==
    [name |-> "empty", validator |-> "none", patterns |-> <<"/x*/g">>]

RuleFirst ==
    [name |-> "test", validator |-> "none", patterns |-> <<"/first/">>]

RuleStars ==
    [name |-> "stars", validator |-> "none", patterns |-> <<"/\\*{3}/g">>]

RuleInputs ==
    {RuleCustom, RuleGithubRejected, RuleWord, RuleEmpty, RuleFirst, RuleStars}

\* names callers hand to unregister
NameInputs == {"github-token"}

\* names callers hand to validateKey
KeyNameInputs == {"github-token", "word", "nonexistent"}

\* configurations callers hand to new SecretRedactor(config, registry)
ConfigInputs ==
    << <<>>,
      [includePatternName |-> TRUE],
      [replacement |-> <<"*", "*", "*", "H", "I", "D", "D", "E", "N", "*", "*", "*">>, replacementFn |-> "angle"],
      [replacement |-> <<"*", "*", "*", "H", "I", "D", "D", "E", "N", "*", "*", "*">>, replacementFn |-> "angle",
       includePatternName |-> TRUE] >>

TextApiKey == <<"a", "p", "i", "_", "k", "e", "y", "=", "\"", "s", "k", "-", "a", "b", "c", "d", "e", "f", "g", "h", "i", "j", "k", "l", "m", "n", "o", "p", "q", "r", "s", "t", "u", "v", "w", "x", "y", "z", "1", "2", "3", "4", "5", "6", "\"">>

TextGithub == <<"G", "I", "T", "H", "U", "B", "_", "T", "O", "K", "E", "N", "=", "g", "h", "p", "_", "1", "2", "3", "4", "5", "6", "7", "8", "9", "0", "a", "b", "c", "d", "e", "f", "g", "h", "i", "j", "k", "l", "m", "n", "o", "p", "q", "r", "s", "t", "u", "v", "w", "x", "y", "z">>

TextCustom == <<"k", "e", "y", ":", " ", "C", "U", "S", "T", "O", "M", "_", "A", "B", "C", "D", "E", "F", "G", "H", "I", "J", "1", "2", "3", "4", "5", "6", "7", "8", "9", "0">>

TextBearer == <<"p", "a", "s", "s", "w", "o", "r", "d", "=", "b", "e", "a", "r", "e", "r", " ", "a", "b", "c", "d", "e", "f", "g", "h", "i", "j", "0", "1", "2", "3", "4", "5", "6", "7", "8", "9">>

TextWords == <<"t", "e", "s", "t", "-", "a", "b", " ", "d", "e", "m", "o", "-", "a", "b", " ", "f", "i", "r", "s", "t", " ", "f", "i", "r", "s", "t">>

TextClean == <<"N", "o", " ", "s", "e", "c", "r", "e", "t", "s", " ", "h", "e", "r", "e">>

TextStars == <<"*", "*", "*", " ">> \o SubSeq(TextGithub, 14, 53)

\* 'password=[REDACTED] password=bearer abcdefghij0123456789'
TextRedacted ==
    SubSeq(TextBearer, 1, 9) \o DEFAULT_CONFIG.replacement \o <<" ">> \o TextBearer

\* 'Connecting with api_key="sk-abc123xyz789" to server'
TextReadme ==
    <<"C", "o", "n", "n", "e", "c", "t", "i", "n", "g", " ", "w", "i", "t", "h", " ">>
        \o SubSeq(TextApiKey, 1, 12)
        \o <<"a", "b", "c", "1", "2", "3", "x", "y", "z", "7", "8", "9", "\"", " ", "t", "o", " ", "s", "e", "r", "v", "e", "r">>

\* 'test-first'
TextTestFirst == SubSeq(TextWords, 1, 5) \o SubSeq(TextWords, 17, 21)

\* 'apikey="sk-abcdefghijklmnopqrstuvwxyz123456"'
TextApikey == SubSeq(TextApiKey, 1, 3) \o SubSeq(TextApiKey, 5, 45)

\* 'test- demo-ab'
TextTestDemo == SubSeq(TextWords, 1, 5) \o SubSeq(TextWords, 8, 15)

TextInputs ==
    {<<>>, TextApiKey, TextGithub, TextCustom, TextBearer, TextWords, TextClean,
     TextStars, TextRedacted, TextReadme, TextTestFirst, TextApikey}

KeyInputs == {SubSeq(TextWords, 1, 7), SubSeq(TextWords, 9, 15), SubSeq(TextGithub, 14, 53)}

-----------------------------------------------------------------------------
(* The state machine: one registry and the engines bound to it, one engine  *)
(* for each configuration                                                  *)

DefaultsHistory ==
    <<>> \o [i \in DOMAIN DEFAULT_PATTERNS |->
                [op |-> "register", registration |-> DEFAULT_PATTERNS[i]]]

Engines == DOMAIN ConfigInputs

\* registry = new PatternRegistry(includeDefaults);
\* redactor[e] = new SecretRedactor(ConfigInputs[e], registry)
Init ==
    \E includeDefaults \in BOOLEAN :
        /\ patterns = NewPatternRegistry(includeDefaults)
        /\ config = [e \in Engines |-> MergeConfig(ConfigInputs[e])]
        /\ last = [op |-> "new", includeDefaults |-> includeDefaults]
        /\ history = IF includeDefaults THEN DefaultsHistory ELSE <<>>
        /\ writes = 0
        /\ regExps = <<>>
        /\ registries = <<>> /\ globalRegistry = Null
        /\ redactors = <<>> /\ globalRedactor = Null
        /\ strings = <<>> /\ pending = {}

\* redactor[e].register(r), registry.register(r)
Register(r) ==
    /\ writes < MaxWrites
    /\ patterns' = register(patterns, r)
    /\ last' = [op |-> "register", registration |-> r, before |-> patterns]
    /\ history' = Append(history, [op |-> "register", registration |-> r])
    /\ writes' = writes + 1
    /\ UNCHANGED <<config, regExps, globalVars, secureVars>>

\* redactor[e].unregister(n), registry.unregister(n)
Unregister(n) ==
    /\ writes < MaxWrites
    /\ patterns' = unregister(patterns, n).map
    /\ last' = [op |-> "unregister", name |-> n, before |-> patterns,
                result |-> unregister(patterns, n).result]
    /\ history' = Append(history, [op |-> "unregister", name |-> n])
    /\ writes' = writes + 1
    /\ UNCHANGED <<config, regExps, globalVars, secureVars>>

\* registry.clear()
Clear ==
    /\ writes < MaxWrites
    /\ patterns' = clear(patterns)
    /\ last' = [op |-> "clear", before |-> patterns]
    /\ history' = Append(history, [op |-> "clear"])
    /\ writes' = writes + 1
    /\ UNCHANGED <<config, regExps, globalVars, secureVars>>

\* A call that only reads (redact, detect, validateKey) leaves the registry and
\* the configuration as they are, so what it returns is the same after any
\* number of reads.  The model takes it from the states that construction or a
\* write leaves.
Settled == last.op \in {"new", "register", "unregister", "clear"}

\* the call redactor[e].redact(t) that ran as run tells
RedactCall(e, t, run) ==
    [op |-> "redact", engine |-> e, content |-> t,
     result |-> run.text, events |-> run.events]

\* redactor[e].redact(t)
Redact(e, t) ==
    /\ Settled
    /\ last' = RedactCall(e, t, redactRun(patterns, config[e], t))
    /\ UNCHANGED <<patterns, config, regExps, history, writes, globalVars,
                 secureVars>>

\* redactor[e].detect(t)
Detect(t) ==
    /\ Settled
    /\ last' = [op |-> "detect", content |-> t, result |-> detect(patterns, t)]
    /\ UNCHANGED <<patterns, config, regExps, history, writes, globalVars,
                 secureVars>>

\* redactor[e].validateKey(v, n)
ValidateKey(v, n) ==
    /\ Settled
    /\ last' = [op |-> "validateKey", value |-> v, patternName |-> n,
                result |-> validateKey(patterns, v, n)]
    /\ UNCHANGED <<patterns, config, regExps, history, writes, globalVars,
                 secureVars>>

Next ==
    \/ \E r \in RuleInputs : Register(r)
    \/ \E n \in NameInputs : Unregister(n)
    \/ Clear
    \/ \E e \in Engines, t \in TextInputs : Redact(e, t)
    \/ \E t \in TextInputs : Detect(t)
    \/ \E v \in KeyInputs, n \in KeyNameInputs : ValidateKey(v, n)

Spec == Init /\ [][Next]_vars

-----------------------------------------------------------------------------
(* Updating a built-in rule, by register alone or by unregister and        *)
(* register (SpecUpdate)                                                   *)

\* the built-in rule generic-password handed to register again, with a
\* validator added
RulePasswordUpdated == [DEFAULT_PATTERNS[3] EXCEPT !.validator = "acceptAll"]

UpdateRuleInputs == {RulePasswordUpdated, RuleGithubRejected, RuleWord}

UpdateNameInputs == {RulePasswordUpdated.name, RuleGithubRejected.name}

UpdateTextInputs == {TextBearer, TextGithub, TextWords}

\* new PatternRegistry() and the engines bound to it
UpdateInit ==
    /\ patterns = NewPatternRegistry(TRUE)
    /\ config = [e \in Engines |-> MergeConfig(ConfigInputs[e])]
    /\ last = [op |-> "new", includeDefaults |-> TRUE]
    /\ history = DefaultsHistory
    /\ writes = 0
    /\ regExps = <<>>
    /\ registries = <<>> /\ globalRegistry = Null
    /\ redactors = <<>> /\ globalRedactor = Null
    /\ strings = <<>> /\ pending = {}

UpdateNext ==
    \/ \E r \in UpdateRuleInputs : Register(r)
    \/ \E n \in UpdateNameInputs : Unregister(n)
    \/ \E e \in Engines, t \in UpdateTextInputs : Redact(e, t)
    \/ \E t \in UpdateTextInputs : Detect(t)

SpecUpdate == UpdateInit /\ [][UpdateNext]_vars

-----------------------------------------------------------------------------
(* SecureString (src/unnamed/part_005).  The field value is <<v>> for the  *)
(* string v and <<>> for null.  What a call does is told by a record:      *)
(* threw, and the value returned or the message of the Error thrown.       *)

Returned(v) == [threw |-> FALSE, value |-> v, error |-> ""]

Thrown(e) == [threw |-> TRUE, value |-> <<>>, error |-> e]

\* new SecureString(value)
NewSecureString(value) == [value |-> <<value>>, disposed |-> FALSE]

\* reveal()
reveal(ss) ==
    IF ss.disposed THEN Thrown("SecureString has been disposed")
    ELSE IF ss.value = <<>> THEN Thrown("SecureString value is null")
    ELSE Returned(ss.value[1])

\* dispose() that clears the value and leaves the flag
disposeValueOnly(ss) ==
    IF ss.disposed THEN ss ELSE [ss EXCEPT !.value = <<>>]

\* dispose(): the object after the call
dispose(ss) ==
    IF ss.disposed THEN ss ELSE [value |-> <<>>, disposed |-> TRUE]

\* isDisposed()
isDisposed(ss) == ss.disposed

\* get length()
length(ss) ==
    IF ss.disposed \/ ss.value = <<>> THEN 0 ELSE Len(ss.value[1])

\* s.toUpperCase()
toUpperCase(s) ==
    [i \in DOMAIN s |->
        IF s[i] \in Lower
        THEN UpperSeq[CHOOSE j \in DOMAIN LowerSeq : LowerSeq[j] = s[i]]
        ELSE s[i]]

\* the callbacks handed to use and useAsync:
\*   (s) => s.toUpperCase()
\*   () => { throw new Error('test') }
\*   (s) => { ss.dispose(); return s }      (ss being the SecureString used)
FnInputs == {"toUpperCase", "throws", "disposes"}

\* fn(secret): what the callback returns or throws (for an async callback:
\* what its promise is settled with)
CallFn(fn, secret) ==
    CASE fn = "toUpperCase" -> Returned(toUpperCase(secret))
      [] fn = "throws" -> Thrown("test")
      [] fn = "disposes" -> Returned(secret)

\* the SecureString after the callback has run on it
AfterFn(fn, ss) == IF fn = "disposes" THEN dispose(ss) ELSE ss

\* what use does once reveal() has returned or thrown r: the callback is
\* called only when reveal returned, and dispose() runs in either case
UseRevealed(ss, fn, r) ==
    IF r.threw
    THEN [string |-> dispose(ss), outcome |-> r, called |-> FALSE]
    ELSE [string |-> dispose(AfterFn(fn, ss)), outcome |-> CallFn(fn, r.value),
          called |-> TRUE]

\* use without the finally clause: dispose() runs after the callback has
\* returned only
useDisposeOnReturn(ss, fn) ==
    IF reveal(ss).threw
    THEN [string |-> ss, outcome |-> reveal(ss), called |-> FALSE]
    ELSE [string |-> IF CallFn(fn, reveal(ss).value).threw THEN AfterFn(fn, ss)
                     ELSE dispose(AfterFn(fn, ss)),
          outcome |-> CallFn(fn, reveal(ss).value), called |-> TRUE]

\* use(fn): try { return fn(this.reveal()) } finally { this.dispose() }
use(ss, fn) == UseRevealed(ss, fn, reveal(ss))

-----------------------------------------------------------------------------
(* The state machine of SecureString: the objects constructed and the      *)
(* calls made on them; a useAsync call is two steps, up to the await and   *)
(* from the settling of the callback's promise on.  history[s] tells what  *)
(* has been done to strings[s]: the value it was constructed with and      *)
(* whether dispose() has been called on it.                                *)

MaxStrings == 2

\* values callers wrap
SecretInputs == {<<"m", "y", "-", "s", "e", "c", "r", "e", "t">>, <<"1", "2", "3", "4", "5">>, <<>>}

\* the state in which no registry and no engine has been constructed
NothingConstructed ==
    /\ patterns = <<>> /\ config = <<>> /\ history = <<>> /\ writes = 0
    /\ regExps = <<>>
    /\ registries = <<>> /\ globalRegistry = Null
    /\ redactors = <<>> /\ globalRedactor = Null

SecureInit ==
    /\ NothingConstructed
    /\ strings = <<>> /\ pending = {}
    /\ last = [op |-> "load"]

\* the calls on SecureString objects write nothing else
SecureFrame == UNCHANGED <<patterns, config, regExps, writes, globalVars>>

\* dispose() has been called on strings[s]
DisposeCalled(s) == history' = [history EXCEPT ![s].disposeCalled = TRUE]

\* strings[Len(strings) + 1] = new SecureString(v)
Construct(v) ==
    /\ Len(strings) < MaxStrings
    /\ strings' = Append(strings, NewSecureString(v))
    /\ last' = [op |-> "new SecureString", target |-> Len(strings) + 1, value |-> v]
    /\ history' = Append(history, [value |-> v, disposeCalled |-> FALSE])
    /\ UNCHANGED pending
    /\ SecureFrame

\* strings[s].reveal()
Reveal(s) ==
    /\ last' = [op |-> "reveal", target |-> s, outcome |-> reveal(strings[s])]
    /\ UNCHANGED <<secureVars, history>>
    /\ SecureFrame

\* strings[s].dispose()
Dispose(s) ==
    /\ strings' = [strings EXCEPT ![s] = dispose(@)]
    /\ last' = [op |-> "dispose", target |-> s, before |-> strings[s],
                outcome |-> Returned(<<>>)]
    /\ DisposeCalled(s)
    /\ UNCHANGED pending
    /\ SecureFrame

\* strings[s].isDisposed()
IsDisposed(s) ==
    /\ last' = [op |-> "isDisposed", target |-> s,
                outcome |-> Returned(isDisposed(strings[s]))]
    /\ UNCHANGED <<secureVars, history>>
    /\ SecureFrame

\* strings[s].length
Length(s) ==
    /\ last' = [op |-> "length", target |-> s, outcome |-> Returned(length(strings[s]))]
    /\ UNCHANGED <<secureVars, history>>
    /\ SecureFrame

\* the call use or useAsync on strings[s] that has completed as done tells
UseCall(op, s, fn, before, done) ==
    [op |-> op, target |-> s, fn |-> fn, before |-> before,
     outcome |-> done.outcome, called |-> done.called]

\* the step Use(s, fn) that leaves strings[s] and the outcome as done tells
UseDone(s, fn, done) ==
    /\ strings' = [strings EXCEPT ![s] = done.string]
    /\ last' = UseCall("use", s, fn, strings[s], done)

\* strings[s].use(fn)
Use(s, fn) ==
    /\ UseDone(s, fn, use(strings[s], fn))
    /\ DisposeCalled(s)
    /\ UNCHANGED pending
    /\ SecureFrame

\* useAsync up to `await fn(this.reveal())`, reveal() having returned or
\* thrown r: when it threw, the finally clause runs and the promise is
\* rejected; otherwise the callback runs and its promise is awaited
UseAsyncRevealed(s, fn, r) ==
    IF r.threw
    THEN /\ strings' = [strings EXCEPT ![s] = dispose(@)]
         /\ last' = [op |-> "useAsync", target |-> s, fn |-> fn, before |-> strings[s],
                     outcome |-> r, called |-> FALSE]
         /\ DisposeCalled(s)
         /\ UNCHANGED pending
    ELSE /\ pending' = pending \cup {[target |-> s, fn |-> fn, secret |-> r.value]}
         /\ last' = [op |-> "useAsync call", target |-> s, fn |-> fn]
         /\ UNCHANGED <<strings, history>>

\* strings[s].useAsync(fn), up to the await; one call is awaited at a time on
\* each object
UseAsync(s, fn) ==
    /\ \A pr \in pending : pr.target # s
    /\ UseAsyncRevealed(s, fn, reveal(strings[s]))
    /\ SecureFrame

\* the promise of the callback of the pending call pr settles: the finally
\* clause disposes and the promise of useAsync settles the same way
Settle(pr) ==
    /\ strings' = [strings EXCEPT ![pr.target] = dispose(AfterFn(pr.fn, @))]
    /\ pending' = pending \ {pr}
    /\ last' = [op |-> "useAsync", target |-> pr.target, fn |-> pr.fn,
                before |-> NewSecureString(pr.secret),
                outcome |-> CallFn(pr.fn, pr.secret), called |-> TRUE]
    /\ DisposeCalled(pr.target)
    /\ SecureFrame

SecureNext ==
    \/ \E v \in SecretInputs : Construct(v)
    \/ \E s \in DOMAIN strings : Reveal(s)
    \/ \E s \in DOMAIN strings : Dispose(s)
    \/ \E s \in DOMAIN strings : IsDisposed(s)
    \/ \E s \in DOMAIN strings : Length(s)
    \/ \E s \in DOMAIN strings, fn \in FnInputs : Use(s, fn)
    \/ \E s \in DOMAIN strings, fn \in FnInputs : UseAsync(s, fn)
    \/ \E pr \in pending : Settle(pr)

SpecSecure == SecureInit /\ [][SecureNext]_vars

-----------------------------------------------------------------------------
(* The default instances (patterns.ts 176-194, redactor.ts 192-220) and    *)
(* the safe-error wrappers (safe-error.ts).  A function that reads or      *)
(* writes the module-level state takes the heap h, a record of that state  *)
(* and of the objects constructed, and gives the heap after the call, its  *)
(* field result holding what the call returns.                             *)

\* getPatternRegistry that constructs a registry on every call
getPatternRegistryAlways(h) ==
    [h EXCEPT !.registries = Append(@, NewPatternRegistry(TRUE)),
              !.globalRegistry = Len(h.registries) + 1,
              !.result = Len(h.registries) + 1]

\* getPatternRegistry()
getPatternRegistry(h) ==
    IF h.globalRegistry = Null
    THEN [h EXCEPT !.registries = Append(@, NewPatternRegistry(TRUE)),
                   !.globalRegistry = Len(h.registries) + 1,
                   !.result = Len(h.registries) + 1]
    ELSE [h EXCEPT !.result = h.globalRegistry]

\* resetPatternRegistry()
resetPatternRegistry(h) == [h EXCEPT !.globalRegistry = Null, !.result = Null]

\* this.registry of the engine constructed on the heap g, the heap after
\* `registry ?? getPatternRegistry()`
Constructed(g, c) ==
    [g EXCEPT !.redactors = Append(@, [config |-> MergeConfig(c), registry |-> g.result]),
              !.result = Len(g.redactors) + 1]

\* new SecretRedactor(config, registry); registry = Null is no argument
NewSecretRedactor(h, c, registry) ==
    Constructed(IF registry = Null THEN getPatternRegistry(h)
                ELSE [h EXCEPT !.result = registry], c)

\* globalRedactor = <the engine just constructed>; return globalRedactor
Installed(n) == [n EXCEPT !.globalRedactor = n.result]

\* getRedactor()
getRedactor(h) ==
    IF h.globalRedactor = Null
    THEN Installed(NewSecretRedactor(h, <<>>, Null))
    ELSE [h EXCEPT !.result = h.globalRedactor]

\* configureRedactor that configures once: a later call returns the engine
\* installed before
configureRedactorOnce(h, c, registry) ==
    IF h.globalRedactor = Null
    THEN Installed(NewSecretRedactor(h, c, registry))
    ELSE [h EXCEPT !.result = h.globalRedactor]

\* configureRedactor(config, registry)
configureRedactor(h, c, registry) == Installed(NewSecretRedactor(h, c, registry))

\* resetRedactor()
resetRedactor(h) == [h EXCEPT !.globalRedactor = Null, !.result = Null]

\* h.redactors[r].register(registration): this.registry.register(registration)
registerOn(h, r, registration) ==
    [h EXCEPT !.registries[h.redactors[r].registry] = register(@, registration),
              !.result = Null]

\* h.redactors[r].unregister(name)
unregisterOn(h, r, name) ==
    [h EXCEPT !.registries[h.redactors[r].registry] = unregister(@, name).map,
              !.result = unregister(h.registries[h.redactors[r].registry], name).result]

\* h.redactors[r].redact(content)
redactOn(h, r, content) ==
    redact(h.registries[h.redactors[r].registry], h.redactors[r].config, content)

\* new SafeError(message, originalName, stack, context); stack is <<s>> for
\* the string s and <<>> for undefined, as is the stack of the error thrown
NewSafeError(message, originalName, stack, context) ==
    [type |-> "Error", name |-> "SafeError", message |-> message,
     originalName |-> originalName,
     stack |-> IF stack # <<>> /\ stack[1] # <<>> THEN stack ELSE <<>>,
     context |-> context]

\* the SafeError made of error by the engine g.result of the heap g, with the
\* options { context }: redactStack and preserveType are true; error.string
\* is String(error) of a value that is neither a string nor an Error
SafeErrorBy(g, error, context) ==
    CASE error.type = "string" ->
            NewSafeError(redactOn(g, g.result, error.value), "Error", <<>>, context)
      [] error.type = "other" ->
            NewSafeError(redactOn(g, g.result, error.string), "Error", <<>>, context)
      [] error.type = "Error" ->
            NewSafeError(redactOn(g, g.result, error.message), error.name,
                         IF error.stack # <<>> /\ error.stack[1] # <<>>
                         THEN <<redactOn(g, g.result, error.stack[1])>> ELSE <<>>,
                         context)

\* the heap after createSafeError has taken its engine, g, and made the error
Made(g, error, context) == [g EXCEPT !.result = SafeErrorBy(g, error, context)]

\* createSafeError that always takes the default engine
createSafeErrorByDefault(h, error, r, context) ==
    Made(getRedactor(h), error, context)

\* createSafeError(error, redactor, { context }); r = Null is no redactor:
\* `redactor ?? getRedactor()`
createSafeError(h, error, r, context) ==
    Made(IF r = Null THEN getRedactor(h) ELSE [h EXCEPT !.result = r], error, context)

\* throw <the SafeError that createSafeError made on the heap c>
Throw(c) == [c EXCEPT !.result = Thrown(c.result)]

\* withSafeErrors(fn, redactor, context)(...args), fn being told by what it
\* does when called with args: it returns fn.value or throws fn.error
withSafeErrors(h, fn, r, context) ==
    IF fn.kind = "return" THEN [h EXCEPT !.result = Returned(fn.value)]
    ELSE Throw(createSafeError(h, fn.error, r, context))

-----------------------------------------------------------------------------
(* The state machine of the default instances: the registries and engines  *)
(* constructed, the two module-level references, and the calls made.       *)
(* last tells the last call, the heap before it and what it returned;      *)
(* history[r] tells which call constructed redactors[r].                   *)

MaxCalls == 3

\* configurations callers hand to configureRedactor and new SecretRedactor
ConfigArgs == {ConfigInputs[1], ConfigInputs[3]}

\* what the wrapped function does when called: it returns a value, or throws
\* an Error, a string, or a value that is neither
WrappedInputs ==
    {[kind |-> "return", value |-> SubSeq(TextGithub, 14, 53)],
     [kind |-> "throw",
      error |-> [type |-> "Error", name |-> "TypeError", message |-> TextGithub,
                 stack |-> <<TextCustom>>]],
     [kind |-> "throw", error |-> [type |-> "string", value |-> TextCustom]],
     [kind |-> "throw", error |-> [type |-> "other", string |-> <<"4", "2">>]]}

ContextInputs == {"MyContext"}

\* the module-level state and the objects constructed
Heap ==
    [registries |-> registries, globalRegistry |-> globalRegistry,
     redactors |-> redactors, globalRedactor |-> globalRedactor, result |-> Null]

GlobalInit ==
    /\ NothingConstructed
    /\ strings = <<>> /\ pending = {}
    /\ last = [call |-> [op |-> "load"], before |-> Heap, result |-> Null]

\* redact leaves the heap as it is, and withSafeErrors leaves it as it is or
\* as getRedactor() leaves it: the calls that follow one of them are taken
\* from the states that the other calls leave
AtRest == last.call.op \notin {"redact", "withSafeErrors"}

\* a call that leaves the heap h: call tells the call and its arguments
Call(call, before, h) ==
    /\ AtRest
    /\ writes < MaxCalls
    /\ registries' = h.registries
    /\ globalRegistry' = h.globalRegistry
    /\ redactors' = h.redactors
    /\ globalRedactor' = h.globalRedactor
    /\ last' = [call |-> call, before |-> before, result |-> h.result]
    /\ history' = history \o [i \in 1 .. Len(h.redactors) - Len(before.redactors) |-> call]
    /\ writes' = writes + 1
    /\ UNCHANGED <<patterns, config, regExps, secureVars>>

\* getPatternRegistry()
GetPatternRegistry ==
    Call([op |-> "getPatternRegistry"], Heap, getPatternRegistry(Heap))

\* resetPatternRegistry()
ResetPatternRegistry ==
    Call([op |-> "resetPatternRegistry"], Heap, resetPatternRegistry(Heap))

\* getRedactor()
GetRedactor == Call([op |-> "getRedactor"], Heap, getRedactor(Heap))

\* the heap h, and the registry argument of a constructor on it: none, or
\* `new PatternRegistry(false)` when own
WithRegistry(h, own) ==
    IF own THEN [h EXCEPT !.registries = Append(@, NewPatternRegistry(FALSE)),
                          !.result = Len(h.registries) + 1]
    ELSE h

\* configureRedactor(c) and configureRedactor(c, new PatternRegistry(false))
ConfigureRedactor(c, own) ==
    Call([op |-> "configureRedactor", config |-> c, own |-> own], Heap,
         configureRedactor(WithRegistry(Heap, own), c, WithRegistry(Heap, own).result))

\* resetRedactor()
ResetRedactor == Call([op |-> "resetRedactor"], Heap, resetRedactor(Heap))

\* new SecretRedactor(c) and new SecretRedactor(c, new PatternRegistry(false))
New(c, own) ==
    Call([op |-> "new SecretRedactor", config |-> c, own |-> own], Heap,
         NewSecretRedactor(WithRegistry(Heap, own), c, WithRegistry(Heap, own).result))

\* redactors[r].register(registration)
RegisterOn(r, registration) ==
    Call([op |-> "register", target |-> r, registration |-> registration], Heap,
         registerOn(Heap, r, registration))

\* redactors[r].unregister(name)
UnregisterOn(r, name) ==
    Call([op |-> "unregister", target |-> r, name |-> name], Heap,
         unregisterOn(Heap, r, name))

\* getPatternRegistry().register(registration)
RegisterDefault(registration) ==
    Call([op |-> "getPatternRegistry().register", registration |-> registration], Heap,
         [getPatternRegistry(Heap) EXCEPT
              !.registries[getPatternRegistry(Heap).result] = register(@, registration),
              !.result = Null])

\* withSafeErrors(fn, redactors[r], context)(), and withSafeErrors(fn,
\* undefined, context)() when r = Null
WithSafeErrors(fn, r, context) ==
    Call([op |-> "withSafeErrors", fn |-> fn, redactor |-> r, context |-> context], Heap,
         withSafeErrors(Heap, fn, r, context))

\* redactors[r].redact(t), which leaves the heap as it is
RedactWith(r, t) ==
    /\ AtRest
    /\ last' = [call |-> [op |-> "redact", target |-> r, content |-> t], before |-> Heap,
                result |-> redactOn(Heap, r, t)]
    /\ UNCHANGED <<patterns, config, regExps, history, writes, globalVars,
                 secureVars>>

GlobalNext ==
    \/ GetPatternRegistry
    \/ ResetPatternRegistry
    \/ GetRedactor
    \/ \E c \in ConfigArgs, own \in BOOLEAN : ConfigureRedactor(c, own)
    \/ ResetRedactor
    \/ \E c \in ConfigArgs, own \in BOOLEAN : New(c, own)
    \/ \E r \in DOMAIN redactors : RegisterOn(r, RuleCustom)
    \/ \E r \in DOMAIN redactors, n \in NameInputs : UnregisterOn(r, n)
    \/ RegisterDefault(RuleCustom)
    \/ \E fn \in WrappedInputs, r \in DOMAIN redactors \cup {Null}, context \in ContextInputs :
            WithSafeErrors(fn, r, context)
    \/ \E r \in DOMAIN redactors : RedactWith(r, TextCustom)

SpecGlobal == GlobalInit /\ [][GlobalNext]_vars

-----------------------------------------------------------------------------
(* Calls taken one after the other on engines that share one registry, and *)
(* with it the RegExp objects of its rules (SpecCalls)                     *)

\* the number of redact, detect and validateKey calls taken in sequence
MaxReads == 2

\* the registries the engines are bound to
RegistryInputs ==
    {register(NewPatternRegistry(TRUE), RuleWord),
     register(NewPatternRegistry(FALSE), RuleFirst)}

\* values and names callers hand to validateKey
ValueInputs == KeyInputs \cup {TextTestFirst, TextTestDemo}

ValueNameInputs == KeyNameInputs \cup {RuleFirst.name}

\* texts callers hand to redact and detect
ContentInputs == {<<>>, SubSeq(TextGithub, 14, 53), TextWords, TextGithub}

CallsInit ==
    \E map \in RegistryInputs :
        /\ patterns = map
        /\ config = [e \in Engines |-> MergeConfig(ConfigInputs[e])]
        /\ regExps = NewLastIndex(getAll(map))
        /\ last = [op |-> "new"]
        /\ history = <<>> /\ writes = 0
        /\ registries = <<>> /\ globalRegistry = Null
        /\ redactors = <<>> /\ globalRedactor = Null
        /\ strings = <<>> /\ pending = {}

\* the call before has returned: the loop of detect may run for ever
HasReturned == last.op = "detect" => last.result.outcome = "returned"

\* a call that found the regexes as regExps tells and left them at cursors
Then(call, cursors) ==
    /\ HasReturned
    /\ writes < MaxReads
    /\ writes' = writes + 1
    /\ last' = call
    /\ regExps' = cursors
    /\ UNCHANGED <<patterns, config, history, globalVars, secureVars>>

RedactRan(e, t, before, run) ==
    Then([op |-> "redact", engine |-> e, content |-> t, before |-> before,
          result |-> run.text], run.cursors)

\* redactor[e].redact(t)
ThenRedact(e, t) ==
    RedactRan(e, t, regExps, redactRunFrom(patterns, config[e], t, regExps))

DetectReturned(t, before, run) ==
    Then([op |-> "detect", content |-> t, before |-> before,
          result |-> run.result], run.cursors)

\* redactor[e].detect(t)
ThenDetect(t) == DetectReturned(t, regExps, detectFrom(patterns, t, regExps))

ValidateKeyReturned(v, n, before, run) ==
    Then([op |-> "validateKey", value |-> v, patternName |-> n,
          before |-> before, result |-> run.result], run.cursors)

\* redactor[e].validateKey(v, n)
ThenValidateKey(v, n) ==
    ValidateKeyReturned(v, n, regExps, validateKeyFrom(patterns, v, n, regExps))

CallsNext ==
    \/ \E e \in Engines, t \in ContentInputs : ThenRedact(e, t)
    \/ \E t \in ContentInputs : ThenDetect(t)
    \/ \E v \in ValueInputs, n \in ValueNameInputs : ThenValidateKey(v, n)

SpecCalls == CallsInit /\ [][CallsNext]_vars

-----------------------------------------------------------------------------
(* Vocabulary of the properties                                            *)

\* every rule name the calls of the model use
AllNames ==
    {DEFAULT_PATTERNS[i].name : i \in DOMAIN DEFAULT_PATTERNS}
        \cup {r.name : r \in RuleInputs} \cup NameInputs

\* the names of getAll(), in its order
Names(map) == [i \in DOMAIN getAll(map) |-> getAll(map)[i].name]

\* the k-th write of the history registers a rule under n / takes n away
Registers(k, n) ==
    history[k].op = "register" /\ history[k].registration.name = n

Removes(k, n) ==
    \/ history[k].op = "clear"
    \/ history[k].op = "unregister" /\ history[k].name = n

\* n is registered by the history: registered, and not taken away since
Registered(n) ==
    \E k \in DOMAIN history :
        Registers(k, n) /\ \A j \in k + 1 .. Len(history) : ~Removes(j, n)

\* the last write that registered a rule under n
LatestRegistration(n) ==
    CHOOSE k \in DOMAIN history :
        Registers(k, n) /\ \A j \in k + 1 .. Len(history) : ~Registers(j, n)

\* the write that made n a key: the first registration under n since n was
\* last absent
Insertion(n) ==
    CHOOSE k \in DOMAIN history :
        /\ Registers(k, n)
        /\ \A j \in k + 1 .. Len(history) : ~Removes(j, n)
        /\ \A j \in 1 .. k - 1 :
              Registers(j, n) => \E i \in j + 1 .. k - 1 : Removes(i, n)

\* the text of a match reported by detect
Slice(text, m) == SubSeq(text, m.startIndex + 1, m.endIndex)

\* some occurrence of a pattern of rule in text that replace visits is accepted
\* by the rule's validator (every occurrence, for a rule without validator)
Applies(rule, text) ==
    \E j \in DOMAIN rule.patterns :
        LET ms == ReplaceMatches(Compile(rule.patterns[j]), text) IN
        \E k \in DOMAIN ms :
            \/ rule.validator = "none"
            \/ CallValidator(rule.validator, SubSeq(text, ms[k].index + 1, ms[k].end))

\* the sum over the callback calls of Len(out) - Len(match)
Growth(evs) ==
    Len(Flatten(<<>> \o [i \in DOMAIN evs |-> evs[i].out]))
        - Len(Flatten(<<>> \o [i \in DOMAIN evs |-> evs[i].match]))

\* the (rule, regex) pairs of map, in the order of getAll() and, within a
\* rule, of its pattern list
Pairs(map) ==
    Flatten(<<>> \o [i \in DOMAIN getAll(map) |->
                        <<>> \o [j \in DOMAIN getAll(map)[i].patterns |->
                                    [name |-> getAll(map)[i].name,
                                     pattern |-> getAll(map)[i].patterns[j]]]])

\* the callback calls among evs that were made for pair
EventsOf(evs, pair) ==
    SelectSeq(evs, LAMBDA e : e.name = pair.name /\ e.pattern = pair.pattern)

\* the matches of the regex of pair in text that the validator of pair's rule
\* accepts, in the order of their positions
Accepted(map, pair, text) ==
    SelectSeq(MatchAll([Compile(pair.pattern) EXCEPT !.global = TRUE],
                       Scan(Compile(pair.pattern).items, text)),
              LAMBDA m : \/ get(map, pair.name).validator = "none"
                         \/ CallValidator(get(map, pair.name).validator,
                                          SubSeq(text, m.index + 1, m.end)))

\* the rules of map without those whose validator rejects every value
WithoutRejecting(map) == SelectSeq(map, LAMBDA r : r.validator # "rejectAll")

-----------------------------------------------------------------------------
(* Properties                                                              *)

\* C1: register(r) inserts or overwrites by name.  After it get(r.name) is r
\* and has(r.name) holds; the size is unchanged when the name was present and
\* one larger otherwise; no other name gains, loses or changes its rule.  In
\* every state the names of getAll() are pairwise distinct and size is the
\* length of getAll().
C1_RegisterInsertsOrOverwrites ==
    /\ last.op = "register" =>
         LET r == last.registration
             before == last.before
         IN  /\ get(patterns, r.name) = r
             /\ has(patterns, r.name)
             /\ size(patterns) =
                  IF has(before, r.name) THEN size(before) ELSE size(before) + 1
             /\ \A n \in AllNames \ {r.name} :
                  /\ has(patterns, n) = has(before, n)
                  /\ get(patterns, n) = get(before, n)
    /\ \A i, j \in DOMAIN getAll(patterns) :
         i # j => getAll(patterns)[i].name # getAll(patterns)[j].name
    /\ size(patterns) = Len(getAll(patterns))

\* a register that replaced a different rule registered under the same name
C1_Overwritten ==
    /\ last.op = "register"
    /\ has(last.before, last.registration.name)
    /\ get(last.before, last.registration.name) # last.registration
    /\ size(patterns) = size(last.before)

\* C2: unregister(name) returns true iff the name was registered.  When it
\* returns true the name is gone, the size is one smaller and every other name
\* keeps its rule; when it returns false the registry is as it was.
C2_UnregisterRemovesExactlyThat ==
    last.op = "unregister" =>
        LET n == last.name
            before == last.before
        IN  /\ last.result = has(before, n)
            /\ last.result =>
                 /\ ~has(patterns, n)
                 /\ size(patterns) = size(before) - 1
                 /\ \A m \in AllNames \ {n} :
                      /\ has(patterns, m) = has(before, m)
                      /\ get(patterns, m) = get(before, m)
            /\ ~last.result => patterns = before

\* an unregister that removed one rule of several
C2_Removed ==
    /\ last.op = "unregister"
    /\ last.result
    /\ size(last.before) > 1
    /\ size(patterns) = size(last.before) - 1

\* C3 as stated: getAll() lists the registered rules in the order of the
\* register calls that registered them, the rule of each name being the one
\* its latest register call handed over.
C3_OrderOfRegistration ==
    \A i, j \in DOMAIN getAll(patterns) :
        i < j => LatestRegistration(Names(patterns)[i]) < LatestRegistration(Names(patterns)[j])

\* C3, amended: getAll() lists exactly the names registered and not taken
\* away since, each with the rule of its latest register call, in the order
\* in which the names became keys: a register under a name already present
\* replaces the rule where it stands.
C3_OrderOfInsertion ==
    /\ \A n \in AllNames : has(patterns, n) <=> Registered(n)
    /\ \A i \in DOMAIN getAll(patterns) :
         getAll(patterns)[i] = history[LatestRegistration(Names(patterns)[i])].registration
    /\ \A i, j \in DOMAIN getAll(patterns) :
         i < j => Insertion(Names(patterns)[i]) < Insertion(Names(patterns)[j])

\* a rule registered after the rules that follow it in getAll()
C3_ReplacedInPlace ==
    /\ last.op = "register"
    /\ has(last.before, last.registration.name)
    /\ IndexOf(patterns, last.registration.name) < size(patterns)
    /\ LatestRegistration(last.registration.name) = Len(history)

\* C4: a registry constructed with the defaults holds the eleven built-in
\* names in this order; one constructed without holds nothing.
C4_BuiltInRules ==
    last.op = "new" =>
        IF last.includeDefaults
        THEN Names(patterns) =
               <<"generic-api-key", "generic-secret", "generic-password",
                 "bearer-token", "aws-access-key", "aws-secret-key",
                 "github-token", "gitlab-token", "slack-token", "private-key",
                 "jwt">>
        ELSE size(patterns) = 0

\* a registry just constructed with the defaults
C4_ConstructedWithDefaults ==
    last.op = "new" /\ last.includeDefaults /\ size(patterns) = Len(DEFAULT_PATTERNS)

\* C5: for the empty text redact returns the empty text (and calls no
\* callback) and detect returns {found: false, matches: []}, whatever the
\* rules and the configuration.
C5_EmptyText ==
    /\ (last.op = "redact" /\ last.content = <<>>) =>
          last.result = <<>> /\ last.events = <<>>
    /\ (last.op = "detect" /\ last.content = <<>>) =>
          last.result = [outcome |-> "returned", found |-> FALSE, matches |-> <<>>]

\* redact of the empty text with a rule that matches the empty string
C5_EmptyTextEmptyPattern ==
    /\ last.op = "redact"
    /\ last.content = <<>>
    /\ has(patterns, RuleEmpty.name)
    /\ Applies(get(patterns, RuleEmpty.name), <<>>)

\* C6: a match the rule's validator rejects is returned as it is by redact's
\* callback and is not among detect's matches; rules whose validator rejects
\* everything change neither what redact returns nor what detect reports.
C6_ValidatorGating ==
    /\ last.op = "redact" =>
         /\ \A i \in DOMAIN last.events :
              LET ev == last.events[i]
                  rule == get(patterns, ev.name)
              IN  (rule.validator # "none" /\ ~CallValidator(rule.validator, ev.match))
                      => ev.out = ev.match
         /\ WithoutRejecting(patterns) # patterns =>
              last.result = redact(WithoutRejecting(patterns), config[last.engine],
                                   last.content)
    /\ (last.op = "detect" /\ last.result.outcome = "returned") =>
         \A i \in DOMAIN last.result.matches :
              LET m == last.result.matches[i]
                  rule == get(patterns, m.patternName)
              IN  rule.validator # "none" =>
                      CallValidator(rule.validator, Slice(last.content, m))

\* redact met a match of a rule whose validator rejects everything
C6_RejectedMatch ==
    /\ last.op = "redact"
    /\ \E i \in DOMAIN last.events :
         /\ ~last.events[i].accepted
         /\ get(patterns, last.events[i].name).validator = "rejectAll"
    /\ last.result = last.content

\* C7: with includePatternName false every accepted match is replaced by the
\* replacement string ('[REDACTED]' when none is configured) and replacementFn
\* is not called; with includePatternName true every accepted match is
\* replaced by replacementFn(match, name) ('[REDACTED:<name>]' when none is
\* configured).  The text returned differs in length from the text given by
\* what the replacements add.
C7_ReplacementPolicy ==
    last.op = "redact" =>
        LET cfg == config[last.engine]
            given == ConfigInputs[last.engine]
        IN  /\ \A i \in DOMAIN last.events :
                 LET ev == last.events[i] IN
                 ev.accepted =>
                     IF cfg.includePatternName
                     THEN /\ ev.fn
                          /\ ev.out = CallReplacementFn(cfg.replacementFn, ev.match, ev.name)
                          /\ "replacementFn" \notin DOMAIN given =>
                                ev.out = <<"[", "R", "E", "D", "A", "C", "T", "E", "D", ":">>
                                            \o NameChars(ev.name) \o <<"]">>
                     ELSE /\ ~ev.fn
                          /\ ev.out = cfg.replacement
                          /\ "replacement" \notin DOMAIN given =>
                                ev.out = <<"[", "R", "E", "D", "A", "C", "T", "E", "D", "]">>
            /\ Len(last.result) = Len(last.content) + Growth(last.events)

\* redact with includePatternName and a configured replacementFn replaced a
\* match
C7_NamedReplacement ==
    /\ last.op = "redact"
    /\ config[last.engine].includePatternName
    /\ config[last.engine].replacementFn = "angle"
    /\ \E i \in DOMAIN last.events : last.events[i].accepted /\ last.events[i].fn
    /\ last.result # last.content

\* C8: redact, detect and validateKey work on the rules registered when they
\* are called.  redact changes a text iff a rule registered now applies to
\* it, detect reports exactly the names of the rules registered now that
\* apply to it, and validateKey finds a name iff it is registered now.
C8_RulesAtCallTime ==
    /\ (last.op = "redact" /\ last.content # <<>>) =>
         (last.result # last.content
             <=> \E i \in DOMAIN getAll(patterns) : Applies(getAll(patterns)[i], last.content))
    /\ (last.op = "detect" /\ last.result.outcome = "returned") =>
         {last.result.matches[i].patternName : i \in DOMAIN last.result.matches}
            = IF last.content = <<>> THEN {}
              ELSE {getAll(patterns)[i].name :
                        i \in {k \in DOMAIN getAll(patterns) :
                                  Applies(getAll(patterns)[k], last.content)}}
    /\ last.op = "validateKey" =>
         /\ last.result.error = "Pattern '" \o last.patternName \o "' not found"
               <=> ~has(patterns, last.patternName)
         /\ last.result.valid =>
               /\ has(patterns, last.patternName)
               /\ \E j \in DOMAIN get(patterns, last.patternName).patterns :
                     test(Compile(get(patterns, last.patternName).patterns[j]),
                          last.value, 0)

\* a text only the github-token rule matches, redacted after that rule,
\* registered at construction, was unregistered: returned as it was
C8_AfterUnregister ==
    /\ last.op = "redact"
    /\ last.content = TextGithub
    /\ \E k \in DOMAIN history : Registers(k, "github-token")
    /\ ~has(patterns, "github-token")
    /\ Applies(DEFAULT_PATTERNS[7], last.content)
    /\ last.result = last.content

\* C9 as stated: with the default rules and the default configuration,
\* redacting the text redact returned returns it unchanged.
C9_Idempotent ==
    (/\ last.op = "redact"
     /\ ConfigInputs[last.engine] = <<>>
     /\ patterns = NewPatternRegistry(TRUE))
        => redact(patterns, config[last.engine], last.result) = last.result

\* C10: every match detect reports has 0 <= startIndex <= endIndex <=
\* Len(content); its rule is registered and one of the rule's patterns, matched
\* at startIndex in the text given, ends at endIndex; the rule's validator, if
\* any, accepts that slice of the text given.
C10_DetectOffsets ==
    (last.op = "detect" /\ last.result.outcome = "returned") =>
        \A i \in DOMAIN last.result.matches :
            LET m == last.result.matches[i]
                rule == get(patterns, m.patternName)
            IN  /\ 0 <= m.startIndex
                /\ m.startIndex <= m.endIndex
                /\ m.endIndex <= Len(last.content)
                /\ has(patterns, m.patternName)
                /\ \E j \in DOMAIN rule.patterns :
                      MatchAt(Compile(rule.patterns[j]).items, last.content,
                                m.startIndex) = m.endIndex
                /\ rule.validator # "none" =>
                      CallValidator(rule.validator, Slice(last.content, m))
                /\ m.redactedValue = redactValue(Slice(last.content, m))

\* detect reported a match that starts inside the text
C10_MatchInside ==
    /\ last.op = "detect"
    /\ last.result.outcome = "returned"
    /\ last.result.found
    /\ \E i \in DOMAIN last.result.matches :
         /\ last.result.matches[i].startIndex > 0
         /\ last.result.matches[i].endIndex > last.result.matches[i].startIndex

-----------------------------------------------------------------------------
(* C11: the preview of a detected match                                    *)

\* C11 as stated: the redactedValue of every match detect reports is '***'
\* when the matched text has at most 8 characters and its first two
\* characters, '...' and its last two characters otherwise, and it is never
\* the matched text itself.
C11_PreviewNeverTheMatch ==
    (last.op = "detect" /\ last.result.outcome = "returned") =>
        \A i \in DOMAIN last.result.matches :
            LET m == last.result.matches[i]
                mt == Slice(last.content, m)
                rv == m.redactedValue
            IN  /\ Len(mt) <= 8 => rv = <<"*", "*", "*">>
                /\ Len(mt) > 8 =>
                      /\ Len(rv) = 7
                      /\ rv[1] = mt[1] /\ rv[2] = mt[2]
                      /\ rv[3] = "." /\ rv[4] = "." /\ rv[5] = "."
                      /\ rv[6] = mt[Len(mt) - 1] /\ rv[7] = mt[Len(mt)]
                /\ rv # mt

\* C11 amended: the same preview policy; the redactedValue is the matched
\* text itself only when the matched text is '***'.
C11_PreviewPolicy ==
    (last.op = "detect" /\ last.result.outcome = "returned") =>
        \A i \in DOMAIN last.result.matches :
            LET m == last.result.matches[i]
                mt == Slice(last.content, m)
                rv == m.redactedValue
            IN  /\ Len(mt) <= 8 => rv = <<"*", "*", "*">>
                /\ Len(mt) > 8 =>
                      /\ Len(rv) = 7
                      /\ rv[1] = mt[1] /\ rv[2] = mt[2]
                      /\ rv[3] = "." /\ rv[4] = "." /\ rv[5] = "."
                      /\ rv[6] = mt[Len(mt) - 1] /\ rv[7] = mt[Len(mt)]
                /\ rv = mt => mt = <<"*", "*", "*">>

\* detect has reported a match of at most 8 characters and one of more
C11_ShortAndLongMatch ==
    /\ last.op = "detect" /\ last.result.outcome = "returned"
    /\ \E i \in DOMAIN last.result.matches :
         Len(Slice(last.content, last.result.matches[i])) <= 8
    /\ \E i \in DOMAIN last.result.matches :
         Len(Slice(last.content, last.result.matches[i])) > 8

-----------------------------------------------------------------------------
(* C12: the outcomes of validateKey                                        *)

\* C12: validateKey(value, name) returns, in this order of decision: for a name
\* that is not registered, valid = false with the error "Pattern '<name>' not
\* found"; when no pattern of the rule matches value, valid = false with
\* 'Value does not match pattern format', the validator not being called; when
\* a pattern matches and the validator rejects value, valid = false with
\* 'Value failed validation'; otherwise valid = true without error.  The
\* three messages differ and the result carries patternName.
C12_ValidateKeyOutcomes ==
    last.op = "validateKey" =>
        LET rule == get(patterns, last.patternName)
            notFound == "Pattern '" \o last.patternName \o "' not found"
            noMatch == "Value does not match pattern format"
            rejected == "Value failed validation"
            matched == \E j \in DOMAIN rule.patterns :
                          MatchAll([Compile(rule.patterns[j]) EXCEPT !.global = TRUE],
                                   Scan(Compile(rule.patterns[j]).items, last.value)) # <<>>
            res == last.result
        IN  /\ res.patternName = last.patternName
            /\ notFound # noMatch /\ notFound # rejected /\ noMatch # rejected
            /\ IF ~has(patterns, last.patternName)
               THEN ~res.valid /\ res.error = notFound /\ res.calls = <<>>
               ELSE IF ~matched
               THEN ~res.valid /\ res.error = noMatch /\ res.calls = <<>>
               ELSE IF rule.validator # "none" /\ ~CallValidator(rule.validator, last.value)
               THEN ~res.valid /\ res.error = rejected
               ELSE res.valid /\ res.error = ""

\* validateKey was called with a value that no pattern of the rule matches,
\* for a rule whose validator rejects every value
C12_NoMatchBeforeValidator ==
    /\ last.op = "validateKey"
    /\ has(patterns, last.patternName)
    /\ get(patterns, last.patternName).validator = "rejectAll"
    /\ last.result.error = "Value does not match pattern format"

-----------------------------------------------------------------------------
(* C13: the engine returns on every input                                  *)

\* C13: redact, detect and validateKey return their result for every text,
\* rule set and configuration: no call ends without returning.
C13_Total ==
    /\ last.op = "redact" => Len(last.result) >= 0
    /\ last.op = "validateKey" => last.result.valid \in BOOLEAN
    /\ last.op = "detect" =>
         /\ last.result.outcome = "returned"
         /\ last.result.found = (last.result.matches # <<>>)

-----------------------------------------------------------------------------
(* C17: redact removes what detect reports                                 *)

\* s occurs in t as a substring
Occurs(s, t) ==
    \E i \in 0 .. Len(t) - Len(s) : SubSeq(t, i + 1, i + Len(s)) = s

\* C17: for every match that detect reports on a text under the rules
\* registered, the matched substring does not occur in what redact returns for
\* that text, unless the replacement of the match contains it.
C17_RedactRemovesDetected ==
    last.op = "redact" =>
        LET d == detect(patterns, last.content) IN
        d.outcome = "returned" =>
            \A i \in DOMAIN d.matches :
                LET s == Slice(last.content, d.matches[i])
                    by == ReplaceCallback(get(patterns, d.matches[i].patternName),
                                          config[last.engine], s).out
                IN  Occurs(s, last.result) => Occurs(s, by)

-----------------------------------------------------------------------------
(* C18, C19: SecureString                                                  *)

C19_UseDisposes ==
    last.op \in {"use", "useAsync"} =>
        /\ isDisposed(strings[last.target])
        /\ IF last.before.disposed
           THEN /\ ~last.called
                /\ last.outcome.threw
                /\ last.outcome.error = "SecureString has been disposed"
           ELSE /\ last.called
                /\ last.outcome = CallFn(last.fn, history[last.target].value)

\* use has completed with the Error that its callback threw
C19_CallbackThrew ==
    /\ last.op = "use"
    /\ last.called
    /\ last.outcome.threw
    /\ last.outcome.error = "test"

-----------------------------------------------------------------------------
(* The default instances and the safe-error wrappers (SpecGlobal)          *)

\* C14: getPatternRegistry() returns the registry held, constructing nothing,
\* as long as one is held; the reference held changes from a registry to
\* anything else only by resetPatternRegistry(), which leaves none held; with
\* none held getPatternRegistry() constructs a registry that is none of those
\* constructed before, holds it, and its rules are the default rules only.
C14_RegistryLifecycle ==
    /\ [](/\ last.call.op = "getPatternRegistry" =>
              IF last.before.globalRegistry # Null
              THEN /\ last.result = last.before.globalRegistry
                   /\ Heap = last.before
              ELSE /\ last.result \notin DOMAIN last.before.registries
                   /\ globalRegistry = last.result
                   /\ getAll(registries[last.result]) = DEFAULT_PATTERNS
                   /\ ~has(registries[last.result], RuleCustom.name)
                   /\ SubSeq(registries, 1, Len(last.before.registries)) = last.before.registries
          /\ last.call.op = "resetPatternRegistry" =>
              /\ globalRegistry = Null
              /\ registries = last.before.registries)
    /\ [][globalRegistry # Null /\ globalRegistry' # globalRegistry
             => last'.call.op = "resetPatternRegistry"]_vars

\* the first access after a reset has constructed a registry without the rule
\* 'custom' that was registered on a default registry held before
C14_NewRegistryAfterReset ==
    /\ last.call.op = "getPatternRegistry"
    /\ last.before.globalRegistry = Null
    /\ \E g \in DOMAIN last.before.registries :
           has(last.before.registries[g], RuleCustom.name)
    /\ ~has(registries[last.result], RuleCustom.name)

\* C15: getRedactor() returns the engine held, constructing nothing, as long
\* as one is held; the reference held changes from an engine to anything else
\* only by configureRedactor or resetRedactor; configureRedactor(config,
\* registry?) constructs an engine that is none of those constructed before,
\* with config over the default configuration, holds it and returns it; after
\* resetRedactor() none is held and getRedactor() constructs a new engine with
\* the default configuration.
C15_RedactorLifecycle ==
    /\ [](/\ last.call.op = "getRedactor" =>
              IF last.before.globalRedactor # Null
              THEN /\ last.result = last.before.globalRedactor
                   /\ Heap = last.before
              ELSE /\ last.result \notin DOMAIN last.before.redactors
                   /\ globalRedactor = last.result
                   /\ redactors[last.result].config = DEFAULT_CONFIG
          /\ last.call.op = "configureRedactor" =>
              /\ last.result \notin DOMAIN last.before.redactors
              /\ globalRedactor = last.result
              /\ \A k \in DOMAIN DEFAULT_CONFIG :
                     redactors[last.result].config[k] =
                         IF k \in DOMAIN last.call.config THEN last.call.config[k]
                         ELSE DEFAULT_CONFIG[k]
              /\ SubSeq(redactors, 1, Len(last.before.redactors)) = last.before.redactors
          /\ last.call.op = "resetRedactor" =>
              /\ globalRedactor = Null
              /\ redactors = last.before.redactors)
    /\ [][globalRedactor # Null /\ globalRedactor' # globalRedactor
             => last'.call.op \in {"configureRedactor", "resetRedactor"}]_vars

\* after a reset getRedactor() has constructed an engine with the default
\* configuration, an engine configured otherwise having been held before
C15_NewEngineAfterReset ==
    /\ last.call.op = "getRedactor"
    /\ last.before.globalRedactor = Null
    /\ \E r \in DOMAIN last.before.redactors :
           /\ history[r].op = "configureRedactor"
           /\ last.before.redactors[r].config # DEFAULT_CONFIG
    /\ redactors[last.result].config = DEFAULT_CONFIG

\* the rules getPatternRegistry() gives on the heap h
Seen(h) == getAll(getPatternRegistry(h).registries[getPatternRegistry(h).result])

\* redactors[r] was constructed by `new SecretRedactor(config)`
Local(r) == history[r].op = "new SecretRedactor" /\ ~history[r].own

\* C16: register and unregister on an engine constructed by
\* `new SecretRedactor(config)` leave the rules that getPatternRegistry()
\* gives as they were, and a rule registered through getPatternRegistry()
\* leaves what such an engine redacts as it was.
C16_Isolated ==
    /\ last.call.op \in {"register", "unregister"} /\ Local(last.call.target)
           => Seen(Heap) = Seen(last.before)
    /\ last.call.op = "getPatternRegistry().register" =>
           \A r \in DOMAIN last.before.redactors :
               Local(r) => redactOn(Heap, r, TextCustom) = redactOn(last.before, r, TextCustom)

\* what is redacted of a thrown value: its message, the string itself, or
\* its string form
Thrower(error) ==
    CASE error.type = "Error" -> error.message
      [] error.type = "string" -> error.value
      [] error.type = "other" -> error.string

\* the engine withSafeErrors redacts with: the one given, else the default
Redacting == IF last.call.redactor # Null THEN last.call.redactor ELSE globalRedactor

-----------------------------------------------------------------------------
(* The documented examples and the order of application (Spec)             *)

\* C21: with the default rules and the default configuration, redact of the
\* README's text 'Connecting with api_key="sk-abc123xyz789" to server' is
\* 'Connecting with [REDACTED] to server' and detect of it reports found;
\* redact of 'api_key="sk-abcdefghijklmnopqrstuvwxyz123456"' is the sentinel.
C21_ReadmeExample ==
    getAll(patterns) = DEFAULT_PATTERNS =>
        /\ (last.op = "redact" /\ config[last.engine] = DEFAULT_CONFIG
                /\ last.content = TextReadme)
               => last.result = SubSeq(TextReadme, 1, 16) \o DEFAULT_CONFIG.replacement
                                    \o SubSeq(TextReadme, 42, 51)
        /\ (last.op = "detect" /\ last.content = TextReadme)
               => last.result.outcome = "returned" /\ last.result.found
        /\ (last.op = "redact" /\ config[last.engine] = DEFAULT_CONFIG
                /\ last.content = TextApiKey)
               => last.result = DEFAULT_CONFIG.replacement

\* C22: redact is a left fold over the (rule, regex) pairs in registry order
\* and then pattern order.  With W[0] the text given and W[k] the text after
\* the k-th pair, the callback is called for the k-th pair on exactly the
\* matches of its regex in W[k - 1] (never in the text given), W[k] is
\* W[k - 1] with those replacements, the calls are made pair after pair, and
\* the text returned is the last W.
C22_LeftFold ==
    (last.op = "redact" /\ last.content # <<>>) =>
        LET pairs == Pairs(patterns)
            evs == last.events
            W[k \in 0 .. Len(pairs)] ==
                IF k = 0 THEN last.content
                ELSE Splice(W[k - 1], EventsOf(evs, pairs[k]))
        IN  /\ W[Len(pairs)] = last.result
            /\ evs = Flatten(<<>> \o [k \in DOMAIN pairs |-> EventsOf(evs, pairs[k])])
            /\ \A k \in DOMAIN pairs :
                   LET ms == ReplaceMatches(Compile(pairs[k].pattern), W[k - 1])
                       ek == EventsOf(evs, pairs[k])
                   IN  /\ Len(ek) = Len(ms)
                       /\ \A i \in DOMAIN ek :
                              /\ ek[i].index = ms[i].index
                              /\ ek[i].match = SubSeq(W[k - 1], ms[i].index + 1, ms[i].end)

\* 'test-first' redacted with the rule /first/ registered before the rule
\* /[a-z]{4}-[a-z]+/: the first rule's replacement stands and the second
\* rule, which matches the whole text given, finds nothing in what is left;
\* with the two rules in the other order the text returned is another
C22_OrderDecides ==
    /\ last.op = "redact"
    /\ last.content = TextTestFirst
    /\ Names(patterns) = <<RuleFirst.name, RuleWord.name>>
    /\ Applies(RuleWord, last.content)
    /\ \A i \in DOMAIN last.events : last.events[i].name = RuleFirst.name
    /\ redact(<<patterns[2], patterns[1]>>, config[last.engine], last.content) # last.result

\* C23: the matches detect returns are, for each (rule, regex) pair in
\* registry order and then pattern order, one entry for each match of the
\* regex in the text that the rule's validator accepts, by position; nothing
\* is merged, dropped or sorted across pairs; found tells that there is one.
C23_DetectEntries ==
    (last.op = "detect" /\ last.result.outcome = "returned" /\ last.content # <<>>) =>
        LET pairs == Pairs(patterns)
            entries == Flatten(<<>> \o [k \in DOMAIN pairs |->
                          <<>> \o [i \in DOMAIN Accepted(patterns, pairs[k], last.content) |->
                              [patternName |-> pairs[k].name,
                               startIndex |-> Accepted(patterns, pairs[k], last.content)[i].index,
                               endIndex |-> Accepted(patterns, pairs[k], last.content)[i].end]]])
        IN  /\ Len(last.result.matches) = Len(entries)
            /\ \A i \in DOMAIN entries :
                   /\ last.result.matches[i].patternName = entries[i].patternName
                   /\ last.result.matches[i].startIndex = entries[i].startIndex
                   /\ last.result.matches[i].endIndex = entries[i].endIndex
            /\ last.result.found <=> last.result.matches # <<>>

\* detect has reported one span twice, once for each of two regexes
C23_SpanReportedTwice ==
    /\ last.op = "detect"
    /\ last.result.outcome = "returned"
    /\ \E i, j \in DOMAIN last.result.matches :
           /\ i < j
           /\ last.result.matches[i].startIndex = last.result.matches[j].startIndex
           /\ last.result.matches[i].endIndex = last.result.matches[j].endIndex

-----------------------------------------------------------------------------
(* Calls in sequence (SpecCalls)                                           *)

\* C24: the engine is stateless between calls.  Whatever redact, detect and
\* validateKey calls were made before on the engines that share the rules'
\* RegExp objects, and whatever lastIndex they left on them, a call returns
\* what the same call returns when it is the first one made on a fresh engine
\* with the same registry content and config
C24_StatelessBetweenCalls ==
    /\ last.op = "redact" =>
            last.result = redact(patterns, config[last.engine], last.content)
    /\ last.op = "detect" => last.result = detect(patterns, last.content)
    /\ last.op = "validateKey" =>
            last.result = validateKey(patterns, last.value, last.patternName)

\* a detect call that found a RegExp object with the lastIndex an earlier
\* validateKey call left behind its match, and reported the match at the
\* start of its text all the same
C24_CursorLeftBehind ==
    /\ last.op = "detect"
    /\ \E p \in DOMAIN last.before : last.before[p] > 0
    /\ last.result.found
    /\ last.result.matches[1].startIndex = 0

-----------------------------------------------------------------------------
(* Termination and global mode (Spec)                                      *)

\* C25: redact, detect and validateKey terminate with a finite result for
\* every text and every rule set register accepts, the rules with a pattern
\* that is not in global mode or that matches the empty string among them:
\* no call of detect is left in its exec loop for ever
C25_Terminates ==
    /\ last.op = "redact" => Len(last.result) \in Nat
    /\ last.op = "validateKey" => Len(last.result.calls) <= 1
    /\ last.op = "detect" =>
            /\ last.result.outcome # "hang"
            /\ Len(last.result.matches) \in Nat

\* C26: every pattern the registry holds, built-in or registered later, is
\* evaluated in global mode: for each (rule, regex) pair redact visits every
\* non-overlapping match of the regex in the working text, not only the
\* first one, and every one of them that the validator accepts is replaced
C26_EveryMatchReplaced ==
    (last.op = "redact" /\ last.content # <<>>) =>
        LET pairs == Pairs(patterns)
            evs == last.events
            W[k \in 0 .. Len(pairs)] ==
                IF k = 0 THEN last.content
                ELSE Splice(W[k - 1], EventsOf(evs, pairs[k]))
        IN  \A k \in DOMAIN pairs :
                /\ Compile(pairs[k].pattern).global
                /\ Len(SelectSeq(EventsOf(evs, pairs[k]), LAMBDA e : e.accepted)) =
                       Len(Accepted(patterns, pairs[k], W[k - 1]))

\* C28: redact never alters a text in which detect reports no match.  For
\* every text, rule set and configuration, when detect of the text returns
\* with found false, redact of the text returns the text
C28_NothingFoundNothingRedacted ==
    last.op = "redact" =>
        LET found == detect(patterns, last.content)
        IN  (found.outcome = "returned" /\ ~ found.found)
                => last.result = last.content

\* redact of a text in which detect finds nothing although a regex matches:
\* the validator rejected the match when redact's callback asked it
C28_OnlyRejectedMatches ==
    /\ last.op = "redact"
    /\ last.events # <<>>
    /\ last.result = last.content
    /\ detect(patterns, last.content) =
           [outcome |-> "returned", found |-> FALSE, matches |-> <<>>]

\* C30 as stated: validateKey agrees with detect.  For every non-empty value
\* v and registered rule n, when validateKey(v, n) is valid then detect(v)
\* reports a match with patternName n
C30_ValidKeyIsDetected ==
    (last.op = "validateKey" /\ last.value # <<>> /\ last.result.valid) =>
        LET found == detect(patterns, last.value)
        IN  \E i \in DOMAIN found.matches :
                found.matches[i].patternName = last.patternName

\* C30, amended: when validateKey(v, n) is valid, a regex of rule n matches
\* in v; and detect(v), where it returns, reports a match with patternName n
\* exactly when rule n has no validator or its validator accepts one of the
\* substrings its regexes match.  validateKey asks the validator about the
\* whole value and detect about each match, so the two verdicts can differ
C30_ValidKeyMatchesSomewhere ==
    (last.op = "validateKey" /\ last.value # <<>> /\ last.result.valid) =>
        LET n == last.patternName
            rule == get(patterns, n)
            found == detect(patterns, last.value)
        IN  /\ rule # Undefined
            /\ \E j \in DOMAIN rule.patterns :
                   exec(Compile(rule.patterns[j]), last.value, 0).m # NoMatch
            /\ rule.validator # "none" => CallValidator(rule.validator, last.value)
            /\ found.outcome = "returned" =>
                   ((\E i \in DOMAIN found.matches : found.matches[i].patternName = n)
                      <=> \E j \in DOMAIN rule.patterns :
                             Accepted(patterns, [name |-> n, pattern |-> rule.patterns[j]],
                                      last.value) # <<>>)

\* validateKey('test- demo-ab', 'word') is valid, the validator accepting
\* the value, while detect of the value reports nothing: the only match of
\* the rule's regex is 'demo-ab', which the validator rejects
C30_ValidButUndetected ==
    /\ last.op = "validateKey"
    /\ last.value = TextTestDemo
    /\ last.patternName = RuleWord.name
    /\ last.result.valid
    /\ last.result.calls = <<TextTestDemo>>
    /\ detect(patterns, last.value).outcome = "returned"
    /\ \A i \in DOMAIN detect(patterns, last.value).matches :
           detect(patterns, last.value).matches[i].patternName # RuleWord.name

-----------------------------------------------------------------------------
(* The two ways of updating a rule (SpecUpdate)                            *)

\* C29: a register under a name that is a key replaces the rule and leaves
\* the names of getAll() in the order they had; a register of the name that
\* the unregister call before it took away puts the rule at the end, behind
\* the rules that followed it
C29_UpdateKeepsOrMovesPlace ==
    last.op = "register" =>
        LET r == last.registration
            before == last.before
        IN  /\ get(patterns, r.name) = r
            /\ has(before, r.name) =>
                   /\ Names(patterns) = Names(before)
                   /\ IndexOf(patterns, r.name) = IndexOf(before, r.name)
            /\ (/\ Len(history) >= 2
                /\ history[Len(history) - 1] = [op |-> "unregister", name |-> r.name])
                   => /\ Names(patterns) = Append(Names(before), r.name)
                      /\ IndexOf(patterns, r.name) = size(patterns)

\* redact of 'password=bearer abcdefghij0123456789' after generic-password
\* was unregistered and registered again: the rule now follows bearer-token
\* and replaces 'password=[REDACTED]', so the text returned is another than
\* with the same rule registered in place
C29_UpdatesGiveDifferentOutputs ==
    /\ last.op = "redact"
    /\ last.content = TextBearer
    /\ Len(history) = Len(DefaultsHistory) + 2
    /\ history[Len(history) - 1] = [op |-> "unregister", name |-> RulePasswordUpdated.name]
    /\ history[Len(history)] = [op |-> "register", registration |-> RulePasswordUpdated]
    /\ IndexOf(patterns, RulePasswordUpdated.name) = size(patterns)
    /\ IndexOf(register(NewPatternRegistry(TRUE), RulePasswordUpdated),
               RulePasswordUpdated.name) = 3
    /\ last.result # redact(register(NewPatternRegistry(TRUE), RulePasswordUpdated),
                            config[last.engine], last.content)

-----------------------------------------------------------------------------
(* The default engine and the default registry (SpecGlobal)                *)

\* the default engine in place was not handed a registry of its own
ByDefaultRegistry(r) ==
    history[r].op = "configureRedactor" => ~ history[r].own

\* C27: the default engine and the default registry always share one rule
\* set.  After any sequence of getPatternRegistry, resetPatternRegistry,
\* getRedactor, resetRedactor and configureRedactor without a registry
\* argument, the registry of the engine that getRedactor() returns is the
\* registry that getPatternRegistry() returns
C27_DefaultsShareRegistry ==
    (globalRedactor # Null => ByDefaultRegistry(globalRedactor)) =>
        getRedactor(Heap).redactors[getRedactor(Heap).result].registry
            = getPatternRegistry(getRedactor(Heap)).result

====
